---- MODULE Spec2Model ----
(***************************************************************************)
(* Expense tracker: the Supabase tables with their row-level policies and  *)
(* triggers (supabase/migrations), and the React views that read and write *)
(* them (ExpenseForm, ExpenseList, ActivityLog, BudgetManager,             *)
(* CategoryManager).  A backend request is one atomic step of the          *)
(* database; a view handler is split at its awaits, so other sessions may  *)
(* act between the requests of one handler.  A read is taken at the step   *)
(* that applies its response.                                              *)
(***************************************************************************)
EXTENDS Integers, Sequences, FiniteSets, TLC

VARIABLES
    expenses,       \* table expenses: row id = position, rows are never removed
    activity_logs,  \* table activity_logs (client-written audit rows)
    activity_log,   \* table activity_log (trigger-written audit rows)
    budgets,        \* table budgets: set of rows
    list,           \* ExpenseList state, per session
    fetches,        \* ExpenseList: fetchExpenses calls in flight, per session
    bfetches,       \* ExpenseList: fetchBudgets calls in flight, per session
    dels,           \* ExpenseList: handleDelete calls in flight, per session
    form,           \* ExpenseForm state, per session
    alog,           \* ActivityLog state, per session
    monthlyStats,   \* ExpenseStats state, per session
    chartMonthlyData,   \* BudgetChart state (monthlyData), per session
    categories,     \* table categories: set of rows
    uuids,          \* number of category ids generated so far
    bm,             \* BudgetManager state, per session
    saves,          \* BudgetManager: the requests in flight, per session
    cm,             \* Dashboard categories and CategoryManager state, per session
    replies         \* the answer to the last direct API request, per session

dbVars == <<expenses, activity_logs, activity_log, budgets>>
listVars == <<list, fetches, bfetches, dels>>
budgetVars == <<bm, saves>>
categoryVars == <<categories, uuids, cm>>
settingsVars == <<bm, saves, categories, uuids, cm, replies>>
expenseVars == <<expenses, activity_logs, activity_log, list, fetches, bfetches,
                 dels, form, alog, monthlyStats, chartMonthlyData>>
vars == <<expenses, activity_logs, activity_log, budgets,
          list, fetches, bfetches, dels, form, alog, monthlyStats, chartMonthlyData,
          categories, uuids, bm, saves, cm, replies>>

----------------------------------------------------------------------------
(* Bounds *)
MaxExpenses == 2        \* rows the expenses table may hold
MaxPending == 1         \* fetchExpenses / fetchBudgets calls in flight per view
MaxDeleting == 1        \* handleDelete calls in flight per view
MaxRows == 3            \* rows of expenses when requests are sent directly
MaxPageRows == 12       \* expenses in the table when paging is examined
MaxCategories == 3      \* category ids generated
MaxLogRows == 3         \* rows of an audit table when requests are sent directly
MaxRacing == 2          \* calls of one handler in flight per view when answers race

(* Values *)
NULL == "null"
NoId == 0                           \* null where an expense id is expected
Users == {"u1", "u2"}
Sessions == {"s1", "s2"}
ListSessions == {"s1"}
BudgetSessions == {"s1", "s3"}      \* two sessions of user u1
CategorySessions == {"s1"}
Categories == {"c1", "c2"}
Descriptions == {"milk"}
AmountInputs == {"", "1", "2"}      \* text of the amount field
\* the calendar: day 0 is the last day of the previous month, the current
\* month is days MonthStart..MonthEnd, and the clock stands at Today.
MonthStart == 1
Today == 1
MonthEnd == 2
Days == 0..MonthEnd
NoDate == 0 - 1                     \* the empty date field
ITEMS_PER_PAGE == 10

auth_uid(s) == IF s = "s2" THEN "u2" ELSE "u1"
CategoryName(c) == IF c = "c1" THEN "Groceries" ELSE "Rent"
\* parseFloat, with NaN (the empty field) already mapped to the 0 that
\* "parseFloat(value) || 0" and the form's "!amount" test make of it
parseFloat(str) ==
    CASE str = "1" -> 1 [] str = "2" -> 2 [] str = "-1" -> 0 - 1 [] OTHER -> 0

RECURSIVE SumOver(_, _)
SumOver(f, S) ==
    IF S = {} THEN 0
    ELSE LET x == CHOOSE y \in S : TRUE IN f[x] + SumOver(f, S \ {x})

\* a row after SET patch: the columns named by patch take its values
Patched(row, patch) ==
    [col \in DOMAIN row |-> IF col \in DOMAIN patch THEN patch[col] ELSE row[col]]

Ceil(n, d) == (n + d - 1) \div d
Min(a, b) == IF a < b THEN a ELSE b
Max(a, b) == IF a > b THEN a ELSE b

----------------------------------------------------------------------------
(* Table expenses: policies and triggers *)

\* a trigger that stamps the user only when the client sent none
set_user_id_when_missing(row, uid) ==
    IF row.user_id = NULL THEN [row EXCEPT !.user_id = uid] ELSE row

\* BEFORE INSERT trigger set_user_id_on_insert
set_user_id(row, uid) == [row EXCEPT !.user_id = uid]

\* policy "Users can manage their own expenses" (USING and WITH CHECK)
ManageOwnExpenses(uid, row) == uid = row.user_id

\* column defaults of expenses
ExpenseDefaults(r) ==
    [amount |-> r.amount, description |-> r.description, date |-> r.date,
     category_id |-> r.category_id, user_id |-> r.user_id,
     is_deleted |-> FALSE, deleted_at |-> NULL]

\* AFTER INSERT trigger log_expense_creation_trigger
log_expense_creation(log, id, uid) ==
    Append(log, [expense_id |-> id, action |-> "add", user_id |-> uid])

\* the row an INSERT INTO expenses by uid stores
InsertedExpense(uid, r) == set_user_id(ExpenseDefaults(r), uid)

\* ids of the rows a SELECT on expenses by uid may see
VisibleExpenses(uid) ==
    {i \in DOMAIN expenses : ManageOwnExpenses(uid, expenses[i])}

\* a soft delete whose update also blanks the description
SoftDeleteRowLosingDescription(row) ==
    [row EXCEPT !.is_deleted = TRUE, !.deleted_at = "now", !.description = ""]

\* the update payload of handleDelete: is_deleted = true, deleted_at = now()
SoftDeleteRow(row) == [row EXCEPT !.is_deleted = TRUE, !.deleted_at = "now"]

\* UPDATE expenses SET ... WHERE id = i, under the policy of uid
UpdateSoftDelete(uid, i) ==
    IF i \in DOMAIN expenses /\ ManageOwnExpenses(uid, expenses[i])
                             /\ ManageOwnExpenses(uid, SoftDeleteRow(expenses[i]))
    THEN [expenses EXCEPT ![i] = SoftDeleteRow(expenses[i])]
    ELSE expenses

----------------------------------------------------------------------------
(* Table activity_logs *)

\* BEFORE INSERT trigger set_user_id_on_activity_log_insert
set_activity_log_user_id(row, uid) == [row EXCEPT !.user_id = uid]

\* policy "Users can create activity logs" / "Users can read their own ..."
OwnActivityLog(uid, row) == row.user_id = uid

\* an insert that is answered without an error and stores nothing
InsertActivityLogIgnored(uid, row) == activity_logs

\* INSERT INTO activity_logs
InsertActivityLog(uid, row) ==
    LET new == set_activity_log_user_id(row, uid)
    IN IF OwnActivityLog(uid, new) THEN Append(activity_logs, new)
       ELSE activity_logs

----------------------------------------------------------------------------
(* Table budgets *)

\* policy "Users can view their own budgets"
ViewOwnBudgets(uid, row) == row.user_id = uid

\* policy "Users can insert their own budgets"
InsertOwnBudgets(uid, row) == row.user_id = uid /\ row.amount >= 0

\* a delete policy USING (true)
DeleteAnyBudgets(uid, row) == TRUE

\* policy "Users can delete their own budgets"
DeleteOwnBudgets(uid, row) == row.user_id = uid

\* DELETE FROM budgets WHERE user_id = target, requested by uid
DeleteBudgets(uid, target) ==
    {b \in budgets : ~(b.user_id = target /\ DeleteOwnBudgets(uid, b))}

\* a budgets table whose UNIQUE(category_id, user_id) is not enforced
InsertBudgetsAcceptedWithoutUnique(uid, rows) ==
    /\ \A r \in rows : InsertOwnBudgets(uid, r)
    /\ \A r \in rows : r.amount >= 0
    /\ \A r \in rows : \E c \in categories : c.id = r.category_id

\* an INSERT INTO budgets of several rows is stored as a whole or not at all:
\* the insert policy, CHECK (amount >= 0), the reference to categories and
\* UNIQUE(category_id, user_id)
InsertBudgetsAccepted(uid, rows) ==
    /\ \A r \in rows : InsertOwnBudgets(uid, r)
    /\ \A r \in rows : r.amount >= 0
    /\ \A r \in rows : \E c \in categories : c.id = r.category_id
    /\ \A r \in rows : \A b \in budgets :
            ~(b.category_id = r.category_id /\ b.user_id = r.user_id)

\* SELECT category_id, amount FROM budgets, reduced to a category -> amount
\* map (a category without a row reads as 0, which is falsy like undefined)
BudgetMap(uid) ==
    [c \in Categories |->
        LET rows == {b \in budgets : ViewOwnBudgets(uid, b) /\ b.category_id = c}
        IN IF rows = {} THEN 0 ELSE (CHOOSE b \in rows : TRUE).amount]

----------------------------------------------------------------------------
(* ExpenseForm *)

FormIdle == [pc |-> "idle", error |-> NULL, navigated |-> FALSE,
             expense_id |-> NoId, amount |-> 0, description |-> "",
             category |-> NULL]

\* a check that leaves the date out
FormIncompleteWithoutDate(amount, categoryId, date) ==
    amount = "" \/ categoryId = ""

\* !amount || !categoryId || !date
FormIncomplete(amount, categoryId, date) ==
    amount = "" \/ categoryId = "" \/ date = NoDate

\* handleSubmit: a missing field stops before any request
handleSubmitInvalid(s, amount, categoryId, date) ==
    /\ form[s].pc = "idle"
    /\ FormIncomplete(amount, categoryId, date)
    /\ form' = [form EXCEPT ![s] =
            [FormIdle EXCEPT !.error = "Please fill in all required fields"]]
    /\ UNCHANGED <<dbVars, listVars, alog, monthlyStats, chartMonthlyData, settingsVars>>

\* handleSubmit: getUser and the insert into expenses succeed; the row's
\* AFTER INSERT trigger logs it
handleSubmitInsert(s, amount, description, categoryId, date) ==
    /\ form[s].pc = "idle"
    /\ ~FormIncomplete(amount, categoryId, date)
    /\ Len(expenses) < MaxExpenses
    /\ LET row == InsertedExpense(auth_uid(s),
                    [amount |-> parseFloat(amount), description |-> description,
                     date |-> date, category_id |-> categoryId,
                     user_id |-> NULL])
           id == Len(expenses) + 1
       IN /\ expenses' = Append(expenses, row)
          /\ activity_log' = log_expense_creation(activity_log, id, auth_uid(s))
          /\ form' = [form EXCEPT ![s] =
                [pc |-> "log", error |-> NULL, navigated |-> FALSE,
                 expense_id |-> id, amount |-> parseFloat(amount),
                 description |-> description,
                 category |-> CategoryName(categoryId)]]
    /\ UNCHANGED <<activity_logs, budgets, listVars, alog, monthlyStats, chartMonthlyData, settingsVars>>

\* handleSubmit: getUser or the insert into expenses is rejected (the form
\* holds some complete input)
handleSubmitRejected(s) ==
    /\ form[s].pc = "idle"
    /\ form' = [form EXCEPT ![s] =
            [FormIdle EXCEPT !.error = "Failed to add expense. Please try again."]]
    /\ UNCHANGED <<dbVars, listVars, alog, monthlyStats, chartMonthlyData, settingsVars>>

\* handleSubmit from the insert into activity_logs to the end
handleSubmitLogged(s) ==
    /\ form[s].pc = "log"
    /\ activity_logs' = InsertActivityLog(auth_uid(s),
            [action |-> "add", entity_id |-> form[s].expense_id,
             amount |-> form[s].amount, description |-> form[s].description,
             category |-> form[s].category, user_id |-> auth_uid(s)])
    /\ form' = [form EXCEPT ![s] = [FormIdle EXCEPT !.navigated = TRUE]]
    /\ UNCHANGED <<expenses, activity_log, budgets, listVars, alog, monthlyStats, chartMonthlyData, settingsVars>>

handleSubmitLogRejected(s) ==
    /\ form[s].pc = "log"
    /\ form' = [form EXCEPT ![s] =
            [FormIdle EXCEPT !.error = "Failed to add expense. Please try again."]]
    /\ UNCHANGED <<dbVars, listVars, alog, monthlyStats, chartMonthlyData, settingsVars>>

----------------------------------------------------------------------------
(* ExpenseList *)

ListInitial ==
    [expenses |-> <<>>,
     budgets |-> [c \in Categories |-> 0],
     categoryTotals |-> [c \in Categories |-> 0],
     startDate |-> MonthStart, endDate |-> Today,
     selectedCategory |-> "all",
     currentPage |-> 1, totalPages |-> 1,
     loading |-> TRUE, deleting |-> NoId, error |-> NULL]

\* the closure of one fetchExpenses call
FetchOf(l) ==
    [stage |-> "list", startDate |-> l.startDate, endDate |-> l.endDate,
     selectedCategory |-> l.selectedCategory, currentPage |-> l.currentPage]

\* .gte('date', startDate).lte('date', endDate) [.eq('category_id', ...)]
ListFilter(uid, f) ==
    {i \in VisibleExpenses(uid) :
        /\ expenses[i].date >= f.startDate
        /\ expenses[i].date <= f.endDate
        /\ (f.selectedCategory # "all"
                => expenses[i].category_id = f.selectedCategory)}

\* .order('date', { ascending: false }); rows of one date keep table order
RECURSIVE OrderByDateDesc(_)
OrderByDateDesc(S) ==
    IF S = {} THEN <<>>
    ELSE LET first == CHOOSE i \in S :
                        \A j \in S : \/ expenses[i].date > expenses[j].date
                                     \/ /\ expenses[i].date = expenses[j].date
                                        /\ i <= j
         IN <<first>> \o OrderByDateDesc(S \ {first})

RangeFrom(page) == (page - 1) * ITEMS_PER_PAGE
RangeTo(page) == RangeFrom(page) + ITEMS_PER_PAGE - 1

\* .range(from, to): 0-based, both ends inclusive
Range(seq, from, to) == SubSeq(seq, from + 1, Min(to + 1, Len(seq)))

ListRow(i) ==
    [id |-> i, amount |-> expenses[i].amount,
     description |-> expenses[i].description, date |-> expenses[i].date,
     category_id |-> expenses[i].category_id,
     is_deleted |-> expenses[i].is_deleted]

ListData(uid, f) ==
    LET ids == Range(OrderByDateDesc(ListFilter(uid, f)),
                     RangeFrom(f.currentPage), RangeTo(f.currentPage))
    IN [k \in 1..Len(ids) |-> ListRow(ids[k])]

ListCount(uid, f) == Cardinality(ListFilter(uid, f))

\* the second query of fetchExpenses
MonthExpenses(uid) ==
    {i \in VisibleExpenses(uid) :
        /\ expenses[i].date >= MonthStart
        /\ expenses[i].date <= Today
        /\ expenses[i].is_deleted = FALSE}

\* allMonthExpenses.reduce(...)
MonthTotals(uid) ==
    [c \in Categories |->
        SumOver([i \in DOMAIN expenses |-> expenses[i].amount],
                {i \in MonthExpenses(uid) : expenses[i].category_id = c})]

\* the list UI is replaced by a spinner while loading with no rows
ListShown(s) == ~(list[s].loading /\ Len(list[s].expenses) = 0)

\* an effect that cancels the fetchExpenses calls still pending
StartFetchesCancelling(s, l, n) ==
    /\ Cardinality(fetches[s]) < n
    /\ bfetches[s] < n
    /\ list' = [list EXCEPT ![s] = [l EXCEPT !.loading = TRUE, !.error = NULL]]
    /\ fetches' = [fetches EXCEPT ![s] = {FetchOf(l)}]
    /\ bfetches' = [bfetches EXCEPT ![s] = @ + 1]

\* useEffect on [startDate, endDate, selectedCategory, currentPage]:
\* fetchExpenses() and fetchBudgets() start with the new state
\* (n bounds the calls in flight)
StartFetchesWithin(s, l, n) ==
    /\ Cardinality(fetches[s]) < n
    /\ bfetches[s] < n
    /\ list' = [list EXCEPT ![s] = [l EXCEPT !.loading = TRUE, !.error = NULL]]
    /\ fetches' = [fetches EXCEPT ![s] = @ \cup {FetchOf(l)}]
    /\ bfetches' = [bfetches EXCEPT ![s] = @ + 1]

StartFetches(s, l) == StartFetchesWithin(s, l, MaxPending)

setStartDateWithin(s, d, n) ==
    /\ s \in ListSessions /\ ListShown(s)
    /\ d # list[s].startDate
    /\ StartFetchesWithin(s, [list[s] EXCEPT !.startDate = d], n)
    /\ UNCHANGED <<dbVars, dels, form, alog, monthlyStats, chartMonthlyData, settingsVars>>

setStartDate(s, d) == setStartDateWithin(s, d, MaxPending)

setEndDateWithin(s, d, n) ==
    /\ s \in ListSessions /\ ListShown(s)
    /\ d # list[s].endDate
    /\ StartFetchesWithin(s, [list[s] EXCEPT !.endDate = d], n)
    /\ UNCHANGED <<dbVars, dels, form, alog, monthlyStats, chartMonthlyData, settingsVars>>

setEndDate(s, d) == setEndDateWithin(s, d, MaxPending)

setSelectedCategoryWithin(s, c, n) ==
    /\ s \in ListSessions /\ ListShown(s)
    /\ c # list[s].selectedCategory
    /\ StartFetchesWithin(s, [list[s] EXCEPT !.selectedCategory = c], n)
    /\ UNCHANGED <<dbVars, dels, form, alog, monthlyStats, chartMonthlyData, settingsVars>>

setSelectedCategory(s, c) == setSelectedCategoryWithin(s, c, MaxPending)

\* pagination controls, rendered when totalPages > 1
PreviousPageWithin(s, n) ==
    /\ s \in ListSessions /\ ListShown(s)
    /\ list[s].totalPages > 1
    /\ list[s].currentPage # 1
    /\ StartFetchesWithin(s, [list[s] EXCEPT !.currentPage = Max(1, @ - 1)], n)
    /\ UNCHANGED <<dbVars, dels, form, alog, monthlyStats, chartMonthlyData, settingsVars>>

PreviousPage(s) == PreviousPageWithin(s, MaxPending)

NextPageWithin(s, n) ==
    /\ s \in ListSessions /\ ListShown(s)
    /\ list[s].totalPages > 1
    /\ list[s].currentPage # list[s].totalPages
    /\ list[s].currentPage # Min(list[s].totalPages, list[s].currentPage + 1)
    /\ StartFetchesWithin(s, [list[s] EXCEPT
            !.currentPage = Min(list[s].totalPages, @ + 1)], n)
    /\ UNCHANGED <<dbVars, dels, form, alog, monthlyStats, chartMonthlyData, settingsVars>>

NextPage(s) == NextPageWithin(s, MaxPending)

\* setTotalPages under "if (count)"
TotalPagesAfter(totalPages, count) ==
    IF count # 0 THEN Ceil(count, ITEMS_PER_PAGE) ELSE totalPages

\* fetchExpenses: the list query answers with rows
fetchExpensesList(s, f) ==
    /\ f \in fetches[s] /\ f.stage = "list"
    /\ list' = [list EXCEPT ![s] =
            [@ EXCEPT !.expenses = ListData(auth_uid(s), f),
                      !.totalPages =
                          TotalPagesAfter(@, ListCount(auth_uid(s), f))]]
    /\ fetches' = [fetches EXCEPT ![s] =
            (@ \ {f}) \cup {[f EXCEPT !.stage = "month"]}]
    /\ UNCHANGED <<dbVars, bfetches, dels, form, alog, monthlyStats, chartMonthlyData, settingsVars>>

\* a catch without the finally block
FetchFailedStillLoading(l) == [l EXCEPT !.error = "Failed to fetch expenses"]

\* catch and finally of fetchExpenses
FetchFailed(l) == [l EXCEPT !.error = "Failed to fetch expenses", !.loading = FALSE]

\* fetchExpenses: either query answers with an error
fetchExpensesRejected(s, f) ==
    /\ f \in fetches[s]
    /\ list' = [list EXCEPT ![s] = FetchFailed(@)]
    /\ fetches' = [fetches EXCEPT ![s] = @ \ {f}]
    /\ UNCHANGED <<dbVars, bfetches, dels, form, alog, monthlyStats, chartMonthlyData, settingsVars>>

\* fetchExpenses: the current-month query answers with rows
fetchExpensesMonth(s, f) ==
    /\ f \in fetches[s] /\ f.stage = "month"
    /\ list' = [list EXCEPT ![s] =
            [@ EXCEPT !.categoryTotals = MonthTotals(auth_uid(s)),
                      !.loading = FALSE]]
    /\ fetches' = [fetches EXCEPT ![s] = @ \ {f}]
    /\ UNCHANGED <<dbVars, bfetches, dels, form, alog, monthlyStats, chartMonthlyData, settingsVars>>

\* fetchBudgets of ExpenseList answers with rows
fetchBudgets(s) ==
    /\ bfetches[s] > 0
    /\ list' = [list EXCEPT ![s] = [@ EXCEPT !.budgets = BudgetMap(auth_uid(s))]]
    /\ bfetches' = [bfetches EXCEPT ![s] = @ - 1]
    /\ UNCHANGED <<dbVars, fetches, dels, form, alog, monthlyStats, chartMonthlyData, settingsVars>>

\* fetchBudgets of ExpenseList answers with an error
fetchBudgetsRejected(s) ==
    /\ bfetches[s] > 0
    /\ list' = [list EXCEPT ![s] = [@ EXCEPT !.error = "Failed to fetch budgets"]]
    /\ bfetches' = [bfetches EXCEPT ![s] = @ - 1]
    /\ UNCHANGED <<dbVars, fetches, dels, form, alog, monthlyStats, chartMonthlyData, settingsVars>>


\* handleDelete: click on the trash button of the row at position k.  The
\* button is rendered for rows not marked deleted and is disabled while
\* deleting names the row.
handleDeleteWithin(s, k, n) ==
    /\ s \in ListSessions /\ ListShown(s)
    /\ k \in DOMAIN list[s].expenses
    /\ ~list[s].expenses[k].is_deleted
    /\ list[s].deleting # list[s].expenses[k].id
    /\ Cardinality(dels[s]) < n
    /\ list' = [list EXCEPT ![s] =
            [@ EXCEPT !.deleting = list[s].expenses[k].id, !.error = NULL]]
    /\ dels' = [dels EXCEPT ![s] =
            @ \cup {[stage |-> "update", expense |-> list[s].expenses[k]]}]
    /\ UNCHANGED <<dbVars, fetches, bfetches, form, alog, monthlyStats, chartMonthlyData, settingsVars>>

handleDelete(s, k) == handleDeleteWithin(s, k, MaxDeleting)

\* a catch that shows nothing
DeleteFailedSilently(l) == [l EXCEPT !.deleting = NoId]

\* catch and finally of handleDelete
DeleteFailed(l) == [l EXCEPT !.error = "Failed to delete expense", !.deleting = NoId]

\* handleDelete: getUser and the update of expenses succeed
handleDeleteUpdate(s, d) ==
    /\ d \in dels[s] /\ d.stage = "update"
    /\ expenses' = UpdateSoftDelete(auth_uid(s), d.expense.id)
    /\ dels' = [dels EXCEPT ![s] = (@ \ {d}) \cup {[d EXCEPT !.stage = "log"]}]
    /\ UNCHANGED <<activity_logs, activity_log, budgets, list, fetches,
                   bfetches, form, alog, monthlyStats, chartMonthlyData, settingsVars>>

\* handleDelete: getUser, the update or the insert is rejected
handleDeleteRejected(s, d) ==
    /\ d \in dels[s]
    /\ list' = [list EXCEPT ![s] = DeleteFailed(@)]
    /\ dels' = [dels EXCEPT ![s] = @ \ {d}]
    /\ UNCHANGED <<dbVars, fetches, bfetches, form, alog, monthlyStats, chartMonthlyData, settingsVars>>

\* setExpenses(prev => prev.map(...)) of handleDelete
MarkDeleted(rows, id) ==
    [k \in DOMAIN rows |->
        IF rows[k].id = id THEN [rows[k] EXCEPT !.is_deleted = TRUE] ELSE rows[k]]

\* setCategoryTotals(prev => ...) of handleDelete
SubtractDeleted(totals, e) ==
    [totals EXCEPT ![e.category_id] = @ - e.amount]

\* handleDelete: the insert into activity_logs succeeds, the list is updated
handleDeleteLog(s, d) ==
    /\ d \in dels[s] /\ d.stage = "log"
    /\ activity_logs' = InsertActivityLog(auth_uid(s),
            [action |-> "delete", entity_id |-> d.expense.id,
             amount |-> d.expense.amount, description |-> d.expense.description,
             category |-> CategoryName(d.expense.category_id),
             user_id |-> auth_uid(s)])
    /\ list' = [list EXCEPT ![s] =
            [@ EXCEPT !.expenses = MarkDeleted(@, d.expense.id),
                      !.categoryTotals = SubtractDeleted(@, d.expense),
                      !.deleting = NoId]]
    /\ dels' = [dels EXCEPT ![s] = @ \ {d}]
    /\ UNCHANGED <<expenses, activity_log, budgets, fetches, bfetches, form, alog, monthlyStats, chartMonthlyData, settingsVars>>

\* budget > 0 stands for the truthiness of budgets[categoryId]
isOverBudget(l, categoryId) ==
    /\ l.budgets[categoryId] # 0
    /\ l.categoryTotals[categoryId] > l.budgets[categoryId]

----------------------------------------------------------------------------
(* ActivityLog *)

\* policy "Users can view their own activity logs" on activity_log
ViewOwnActivityLog(uid, row) == uid = row.user_id

\* from('activity_log').select(*, expense:expenses(...)).order('timestamp', desc)
RECURSIVE Reverse(_)
Reverse(seq) ==
    IF seq = <<>> THEN <<>> ELSE Append(Reverse(Tail(seq)), Head(seq))

\* the embedded expense is read under the policy of expenses: a row the
\* user may not see joins as null (expense = FALSE, no amount)
ActivityRows(uid) ==
    LET own == SelectSeq(activity_log, LAMBDA r : ViewOwnActivityLog(uid, r))
        joined == [k \in DOMAIN own |->
                    [expense_id |-> own[k].expense_id, action |-> own[k].action,
                     expense |-> own[k].expense_id \in VisibleExpenses(uid),
                     amount |-> IF own[k].expense_id \in VisibleExpenses(uid)
                                THEN expenses[own[k].expense_id].amount ELSE 0]]
    IN Reverse(joined)

\* fetchActivities, from the mount of the view to the answer with rows (an
\* answer with an error leaves the view as it is)
fetchActivities(s) ==
    /\ alog' = [alog EXCEPT ![s] = ActivityRows(auth_uid(s))]
    /\ UNCHANGED <<dbVars, listVars, form, monthlyStats, chartMonthlyData, settingsVars>>

----------------------------------------------------------------------------
(* ExpenseStats *)

\* a key that names the year only
yearKey(date) == "current"

\* format(parseISO(expense.date), 'yyyy-MM'): the calendar spans two months
monthKey(date) == IF date < MonthStart THEN "previous" ELSE "current"

\* the rows the query of fetchMonthlyStats returns to uid: expenses the policy
\* shows, dated in the last twelve months (every day of the calendar) up to
\* today
StatsRows(uid) ==
    {i \in VisibleExpenses(uid) :
        /\ expenses[i].date \in Days
        /\ expenses[i].date <= Today}

\* the body of data.forEach(expense => ...), applied to the rows in order
RECURSIVE forEachExpense(_, _)
forEachExpense(acc, ids) ==
    IF ids = <<>> THEN acc
    ELSE LET expense == expenses[Head(ids)]
             key == monthKey(expense.date)
             cid == expense.category_id
             started == IF key \in DOMAIN acc THEN acc
                        ELSE acc @@ (key :> [month |-> key, total |-> 0,
                                             categories |-> <<>>])
             cats == IF cid \in DOMAIN started[key].categories
                     THEN started[key].categories
                     ELSE started[key].categories
                            @@ (cid :> [name |-> CategoryName(cid), amount |-> 0])
         IN forEachExpense(
                [started EXCEPT ![key] =
                    [@ EXCEPT !.total = @ + expense.amount,
                              !.categories =
                                  [cats EXCEPT ![cid].amount = @ + expense.amount]]],
                Tail(ids))

\* monthlyData after the forEach over the rows, which arrive ordered by date,
\* latest first; Object.values(monthlyData) is kept under its month keys
monthlyData(rows) == forEachExpense(<<>>, OrderByDateDesc(rows))

\* fetchMonthlyStats, from the mount of the view to setMonthlyStats (an answer
\* with an error leaves the view as it is)
fetchMonthlyStats(s) ==
    /\ monthlyStats' = [monthlyStats EXCEPT ![s] = monthlyData(StatsRows(auth_uid(s)))]
    /\ UNCHANGED <<dbVars, listVars, form, alog, chartMonthlyData, settingsVars>>

----------------------------------------------------------------------------
(* BudgetChart (BudgetPieChart.tsx) *)

\* from('budgets').select('category_id, amount') under the policies of budgets
ChartBudgetRows(uid) == {b \in budgets : ViewOwnBudgets(uid, b)}

\* from('expenses').select('amount, category_id') from startOfMonth to
\* endOfMonth of the current date, is_deleted = false
ChartExpenseRows(uid) ==
    {i \in VisibleExpenses(uid) :
        /\ expenses[i].date >= MonthStart
        /\ expenses[i].date <= MonthEnd
        /\ expenses[i].is_deleted = FALSE}

\* budgetData.forEach: one entry per budget row, nothing spent yet
ChartInitialData(uid) ==
    [c \in {b.category_id : b \in ChartBudgetRows(uid)} |->
        [budget |-> (CHOOSE b \in ChartBudgetRows(uid) : b.category_id = c).amount,
         spent |-> 0]]

\* expenses.forEach: an entry without a budget is created on first use, then
\* the amount is added to spent
RECURSIVE ChartAddExpenses(_, _)
ChartAddExpenses(data, ids) ==
    IF ids = {} THEN data
    ELSE LET i == CHOOSE j \in ids : TRUE
             cid == expenses[i].category_id
             started == IF cid \in DOMAIN data THEN data
                        ELSE data @@ (cid :> [budget |-> 0, spent |-> 0])
         IN ChartAddExpenses(
                [started EXCEPT ![cid].spent = @ + expenses[i].amount],
                ids \ {i})

\* fetchBudgetsAndExpenses, from the mount of the chart to setMonthlyData (an
\* answer with an error leaves monthlyData as it is)
fetchBudgetsAndExpenses(s) ==
    /\ chartMonthlyData' = [chartMonthlyData EXCEPT ![s] =
            ChartAddExpenses(ChartInitialData(auth_uid(s)),
                             ChartExpenseRows(auth_uid(s)))]
    /\ UNCHANGED <<dbVars, listVars, form, alog, monthlyStats, settingsVars>>

\* Math.round of the quotient n / d of two non-negative integers, d > 0
MathRound(n, d) == (2 * n + d) \div (2 * d)

\* percentage of the numerical breakdown
percentage(data) ==
    IF data.budget > 0 THEN MathRound(data.spent * 100, data.budget) ELSE 0

\* the card of the category is drawn red
ChartOverBudget(data) == percentage(data) >= 100

----------------------------------------------------------------------------
(* Table categories under the policies of the last migration *)

\* policy "View all categories" of an earlier migration
ViewAllCategories(uid, row) == TRUE

\* policy "View own and default categories"
ViewOwnAndDefaultCategories(uid, row) == row.is_default = TRUE \/ row.user_id = uid

\* the insert policy of an earlier migration, which let default rows through
CreateOwnOrDefaultCategories(uid, row) ==
    \/ uid = row.user_id /\ ~row.is_default
    \/ row.is_default = TRUE /\ row.user_id = NULL

\* policy "Create custom categories"
CreateCustomCategories(uid, row) == uid = row.user_id /\ ~row.is_default

\* categories as the first migration left it: row level security enabled
\* and no policy FOR UPDATE
NoUpdatePolicy(uid, row) == FALSE

\* the update policy of an earlier migration, which let default rows through
UpdateOwnOrDefaultCategories(uid, row) ==
    \/ uid = row.user_id /\ ~row.is_default
    \/ row.is_default = TRUE /\ row.user_id = NULL

\* policy "Update own categories" (USING and WITH CHECK)
UpdateOwnCategories(uid, row) == uid = row.user_id /\ ~row.is_default

\* policy "Delete own categories"
DeleteOwnCategories(uid, row) == uid = row.user_id /\ ~row.is_default

\* SELECT * FROM categories by uid
VisibleCategories(uid) ==
    {c \in categories : ViewOwnAndDefaultCategories(uid, c)}

CategoryId(n) == CASE n = 1 -> "k1" [] n = 2 -> "k2" [] n = 3 -> "k3" [] OTHER -> "k4"

\* INSERT INTO categories: WITH CHECK on the new row
InsertCategoryAccepted(uid, row) == CreateCustomCategories(uid, row)

\* UPDATE categories SET patch WHERE id = id: the rows USING lets through
UpdateCategoryRows(uid, id) ==
    {c \in categories : c.id = id /\ UpdateOwnCategories(uid, c)}

\* ... and WITH CHECK on what they become; a failure is an error
UpdateCategoryAccepted(uid, id, patch) ==
    \A c \in UpdateCategoryRows(uid, id) : UpdateOwnCategories(uid, Patched(c, patch))

UpdatedCategories(uid, id, patch) ==
    IF UpdateCategoryAccepted(uid, id, patch)
    THEN (categories \ UpdateCategoryRows(uid, id))
            \cup {Patched(c, patch) : c \in UpdateCategoryRows(uid, id)}
    ELSE categories

\* DELETE FROM categories WHERE id = id: the rows USING lets through
DeleteCategoryRows(uid, id) ==
    {c \in categories : c.id = id /\ DeleteOwnCategories(uid, c)}

----------------------------------------------------------------------------
(* Dashboard.fetchCategories and CategoryManager *)

CategoryManagerInitial ==
    [categories |-> {}, fetching |-> 1,
     isAdding |-> FALSE, editingId |-> NULL,
     newCategoryName |-> "", newCategoryIcon |-> "",
     editName |-> "", editIcon |-> "",
     saving |-> FALSE, error |-> "",
     pc |-> "idle", req |-> <<>>]

\* String.prototype.trim on the texts the model types
trim(str) == CASE str = " " -> "" [] str = "Toys " -> "Toys" [] OTHER -> str

\* fetchCategories answers with rows (the order by name is display only and
\* is not kept)
fetchCategories(s) ==
    /\ cm[s].fetching > 0
    /\ cm' = [cm EXCEPT ![s] =
            [@ EXCEPT !.categories = VisibleCategories(auth_uid(s)),
                      !.fetching = @ - 1]]
    /\ UNCHANGED <<dbVars, expenseVars, budgetVars, categories, uuids, replies>>

\* fetchCategories answers with an error: logged, the state stays
fetchCategoriesRejected(s) ==
    /\ cm[s].fetching > 0
    /\ cm' = [cm EXCEPT ![s].fetching = @ - 1]
    /\ UNCHANGED <<dbVars, expenseVars, budgetVars, categories, uuids, replies>>

\* the Add Category button, rendered while the add form is closed
AddCategory(s) ==
    /\ ~cm[s].isAdding
    /\ cm' = [cm EXCEPT ![s] = [@ EXCEPT !.isAdding = TRUE, !.error = ""]]
    /\ UNCHANGED <<dbVars, expenseVars, budgetVars, categories, uuids, replies>>

setNewCategoryName(s, v) ==
    /\ cm[s].isAdding
    /\ cm' = [cm EXCEPT ![s].newCategoryName = v]
    /\ UNCHANGED <<dbVars, expenseVars, budgetVars, categories, uuids, replies>>

setNewCategoryIcon(s, v) ==
    /\ cm[s].isAdding
    /\ cm' = [cm EXCEPT ![s].newCategoryIcon = v]
    /\ UNCHANGED <<dbVars, expenseVars, budgetVars, categories, uuids, replies>>

\* the Cancel button of the add form
CancelAdding(s) ==
    /\ cm[s].isAdding /\ ~cm[s].saving
    /\ cm' = [cm EXCEPT ![s] =
            [@ EXCEPT !.isAdding = FALSE, !.newCategoryName = "",
                      !.newCategoryIcon = "", !.error = ""]]
    /\ UNCHANGED <<dbVars, expenseVars, budgetVars, categories, uuids, replies>>

\* handleAddCategory: an empty field stops before any request
handleAddCategoryInvalid(s) ==
    /\ cm[s].isAdding /\ ~cm[s].saving
    /\ trim(cm[s].newCategoryName) = "" \/ trim(cm[s].newCategoryIcon) = ""
    /\ cm' = [cm EXCEPT ![s].error = "Please fill in all fields"]
    /\ UNCHANGED <<dbVars, expenseVars, budgetVars, categories, uuids, replies>>

\* handleAddCategory up to its requests
handleAddCategory(s) ==
    /\ cm[s].isAdding /\ ~cm[s].saving
    /\ ~(trim(cm[s].newCategoryName) = "" \/ trim(cm[s].newCategoryIcon) = "")
    /\ cm' = [cm EXCEPT ![s] =
            [@ EXCEPT !.saving = TRUE, !.error = "", !.pc = "add",
                      !.req = [name |-> trim(cm[s].newCategoryName),
                               icon |-> trim(cm[s].newCategoryIcon)]]]
    /\ UNCHANGED <<dbVars, expenseVars, budgetVars, categories, uuids, replies>>

\* handleAddCategory: getUser and the insert succeed
handleAddCategoryInserted(s) ==
    /\ cm[s].pc = "add"
    /\ cm[s].fetching < MaxPending
    /\ uuids < MaxCategories
    /\ LET row == [id |-> CategoryId(uuids + 1), name |-> cm[s].req.name,
                   icon |-> cm[s].req.icon, is_default |-> FALSE,
                   user_id |-> auth_uid(s)]
       IN /\ InsertCategoryAccepted(auth_uid(s), row)
          /\ categories' = categories \cup {row}
    /\ uuids' = uuids + 1
    /\ cm' = [cm EXCEPT ![s] =
            [@ EXCEPT !.newCategoryName = "", !.newCategoryIcon = "",
                      !.isAdding = FALSE, !.fetching = @ + 1,
                      !.saving = FALSE, !.pc = "idle", !.req = <<>>]]
    /\ UNCHANGED <<dbVars, expenseVars, budgetVars, replies>>

\* handleAddCategory: getUser or the insert is rejected
handleAddCategoryRejected(s) ==
    /\ cm[s].pc = "add"
    /\ cm' = [cm EXCEPT ![s] =
            [@ EXCEPT !.error = "Failed to add category. Please try again.",
                      !.saving = FALSE, !.pc = "idle", !.req = <<>>]]
    /\ UNCHANGED <<dbVars, expenseVars, budgetVars, categories, uuids, replies>>

\* the guard of the Edit button
EditOffered(category) == ~category.is_default /\ category.user_id # NULL

\* the row of the list that shows the edit form
EditFormShown(s) ==
    \E c \in cm[s].categories : c.id = cm[s].editingId

startEditing(s, category) ==
    /\ category \in cm[s].categories
    /\ cm[s].editingId # category.id
    /\ EditOffered(category)
    /\ cm' = [cm EXCEPT ![s] =
            [@ EXCEPT !.editingId = category.id, !.editName = category.name,
                      !.editIcon = category.icon, !.error = ""]]
    /\ UNCHANGED <<dbVars, expenseVars, budgetVars, categories, uuids, replies>>

setEditName(s, v) ==
    /\ EditFormShown(s)
    /\ cm' = [cm EXCEPT ![s].editName = v]
    /\ UNCHANGED <<dbVars, expenseVars, budgetVars, categories, uuids, replies>>

setEditIcon(s, v) ==
    /\ EditFormShown(s)
    /\ cm' = [cm EXCEPT ![s].editIcon = v]
    /\ UNCHANGED <<dbVars, expenseVars, budgetVars, categories, uuids, replies>>

cancelEditing(s) ==
    /\ EditFormShown(s) /\ ~cm[s].saving
    /\ cm' = [cm EXCEPT ![s] =
            [@ EXCEPT !.editingId = NULL, !.editName = "", !.editIcon = "",
                      !.error = ""]]
    /\ UNCHANGED <<dbVars, expenseVars, budgetVars, categories, uuids, replies>>

\* handleUpdateCategory: an empty field stops before any request
handleUpdateCategoryInvalid(s) ==
    /\ EditFormShown(s) /\ ~cm[s].saving
    /\ trim(cm[s].editName) = "" \/ trim(cm[s].editIcon) = ""
    /\ cm' = [cm EXCEPT ![s].error = "Please fill in all fields"]
    /\ UNCHANGED <<dbVars, expenseVars, budgetVars, categories, uuids, replies>>

\* handleUpdateCategory(editingId) up to its request
handleUpdateCategory(s) ==
    /\ EditFormShown(s) /\ ~cm[s].saving
    /\ ~(trim(cm[s].editName) = "" \/ trim(cm[s].editIcon) = "")
    /\ cm' = [cm EXCEPT ![s] =
            [@ EXCEPT !.saving = TRUE, !.error = "", !.pc = "update",
                      !.req = [id |-> cm[s].editingId,
                               name |-> trim(cm[s].editName),
                               icon |-> trim(cm[s].editIcon)]]]
    /\ UNCHANGED <<dbVars, expenseVars, budgetVars, categories, uuids, replies>>

\* handleUpdateCategory: the update answers without an error (also when the
\* policy let no row through)
handleUpdateCategoryUpdated(s) ==
    /\ cm[s].pc = "update"
    /\ cm[s].fetching < MaxPending
    /\ UpdateCategoryAccepted(auth_uid(s), cm[s].req.id,
                              [name |-> cm[s].req.name, icon |-> cm[s].req.icon])
    /\ categories' = UpdatedCategories(auth_uid(s), cm[s].req.id,
                              [name |-> cm[s].req.name, icon |-> cm[s].req.icon])
    /\ cm' = [cm EXCEPT ![s] =
            [@ EXCEPT !.editingId = NULL, !.fetching = @ + 1,
                      !.saving = FALSE, !.pc = "idle", !.req = <<>>]]
    /\ UNCHANGED <<dbVars, expenseVars, budgetVars, uuids, replies>>

\* handleUpdateCategory: the update is rejected
handleUpdateCategoryRejected(s) ==
    /\ cm[s].pc = "update"
    /\ cm' = [cm EXCEPT ![s] =
            [@ EXCEPT !.error = "Failed to update category. Please try again.",
                      !.saving = FALSE, !.pc = "idle", !.req = <<>>]]
    /\ UNCHANGED <<dbVars, expenseVars, budgetVars, categories, uuids, replies>>

----------------------------------------------------------------------------
(* Requests sent to the backend API directly, outside the views *)

NoReply == [table |-> "none"]

\* policy "Users can insert their own expenses"
InsertOwnExpenses(uid, row) == uid = row.user_id

\* INSERT INTO expenses with a client-chosen user_id
InsertExpenseRequest(s, r) ==
    /\ Len(expenses) < MaxRows
    /\ LET row == InsertedExpense(auth_uid(s), r)
           id == Len(expenses) + 1
       IN IF ManageOwnExpenses(auth_uid(s), row) \/ InsertOwnExpenses(auth_uid(s), row)
          THEN /\ expenses' = Append(expenses, row)
               /\ activity_log' = log_expense_creation(activity_log, id, auth_uid(s))
               /\ replies' = [replies EXCEPT ![s] =
                        [table |-> "expenses", op |-> "insert", status |-> "created",
                         expense_id |-> id, user_id |-> r.user_id]]
          ELSE /\ UNCHANGED <<expenses, activity_log>>
               /\ replies' = [replies EXCEPT ![s] =
                        [table |-> "expenses", op |-> "insert", status |-> "error",
                         expense_id |-> NoId, user_id |-> r.user_id]]
    /\ UNCHANGED <<activity_logs, budgets, listVars, form, alog, monthlyStats, chartMonthlyData, budgetVars,
                   categoryVars>>

\* UPDATE expenses SET patch WHERE id = i: USING hides foreign rows (no row
\* updated, no error), WITH CHECK on the new row fails with an error
UpdateExpenseRequest(s, i, patch) ==
    /\ i \in DOMAIN expenses
    /\ LET new == Patched(expenses[i], patch)
       IN IF ~ManageOwnExpenses(auth_uid(s), expenses[i])
          THEN /\ UNCHANGED expenses
               /\ replies' = [replies EXCEPT ![s] =
                        [table |-> "expenses", op |-> "update", status |-> "ok",
                         expense_id |-> i, count |-> 0]]
          ELSE IF ~ManageOwnExpenses(auth_uid(s), new)
          THEN /\ UNCHANGED expenses
               /\ replies' = [replies EXCEPT ![s] =
                        [table |-> "expenses", op |-> "update", status |-> "error",
                         expense_id |-> i, count |-> 0]]
          ELSE /\ expenses' = [expenses EXCEPT ![i] = new]
               /\ replies' = [replies EXCEPT ![s] =
                        [table |-> "expenses", op |-> "update", status |-> "ok",
                         expense_id |-> i, count |-> 1]]
    /\ UNCHANGED <<activity_logs, activity_log, budgets, listVars, form, alog, monthlyStats, chartMonthlyData,
                   budgetVars, categoryVars>>

\* INSERT INTO categories with client-chosen is_default and user_id
InsertCategoryRequest(s, r) ==
    /\ uuids < MaxCategories
    /\ LET row == [id |-> CategoryId(uuids + 1), name |-> r.name, icon |-> r.icon,
                   is_default |-> r.is_default, user_id |-> r.user_id]
       IN IF InsertCategoryAccepted(auth_uid(s), row)
          THEN /\ categories' = categories \cup {row}
               /\ uuids' = uuids + 1
               /\ replies' = [replies EXCEPT ![s] =
                        [table |-> "categories", op |-> "insert",
                         status |-> "created", category_id |-> row.id, count |-> 1]]
          ELSE /\ UNCHANGED <<categories, uuids>>
               /\ replies' = [replies EXCEPT ![s] =
                        [table |-> "categories", op |-> "insert",
                         status |-> "error", category_id |-> NULL, count |-> 0]]
    /\ UNCHANGED <<dbVars, expenseVars, budgetVars, cm>>

\* UPDATE categories SET patch WHERE id = id
UpdateCategoryRequest(s, id, patch) ==
    /\ categories' = UpdatedCategories(auth_uid(s), id, patch)
    /\ replies' = [replies EXCEPT ![s] =
            IF UpdateCategoryAccepted(auth_uid(s), id, patch)
            THEN [table |-> "categories", op |-> "update", status |-> "ok",
                  category_id |-> id,
                  count |-> Cardinality(UpdateCategoryRows(auth_uid(s), id))]
            ELSE [table |-> "categories", op |-> "update", status |-> "error",
                  category_id |-> id, count |-> 0]]
    /\ UNCHANGED <<dbVars, expenseVars, budgetVars, uuids, cm>>

\* DELETE FROM categories WHERE id = id
DeleteCategoryRequest(s, id) ==
    /\ categories' = categories \ DeleteCategoryRows(auth_uid(s), id)
    /\ replies' = [replies EXCEPT ![s] =
            [table |-> "categories", op |-> "delete", status |-> "ok",
             category_id |-> id,
             count |-> Cardinality(DeleteCategoryRows(auth_uid(s), id))]]
    /\ UNCHANGED <<dbVars, expenseVars, budgetVars, uuids, cm>>

\* policy "Users can update their own budgets" (USING; WITH CHECK)
UpdateOwnBudgets(uid, row) == row.user_id = uid
UpdateOwnBudgetsCheck(uid, row) == row.user_id = uid /\ row.amount >= 0

\* INSERT INTO budgets of one row with client-chosen columns
InsertBudgetRequest(s, r) ==
    /\ IF InsertBudgetsAccepted(auth_uid(s), {r})
       THEN /\ budgets' = budgets \cup {r}
            /\ replies' = [replies EXCEPT ![s] =
                    [table |-> "budgets", op |-> "insert", status |-> "created",
                     row |-> r, count |-> 1]]
       ELSE /\ UNCHANGED budgets
            /\ replies' = [replies EXCEPT ![s] =
                    [table |-> "budgets", op |-> "insert", status |-> "error",
                     row |-> r, count |-> 0]]
    /\ UNCHANGED <<expenseVars, budgetVars, categoryVars>>

\* UPDATE budgets SET patch WHERE category_id = c AND user_id = target: USING
\* hides foreign rows; WITH CHECK, CHECK (amount >= 0) and the UNIQUE
\* constraint fail with an error
UpdateBudgetRequest(s, c, target, patch) ==
    /\ LET rows == {b \in budgets : /\ b.category_id = c /\ b.user_id = target
                                    /\ UpdateOwnBudgets(auth_uid(s), b)}
           new == {Patched(b, patch) : b \in rows}
           rest == budgets \ rows
           ok == /\ \A b \in new : UpdateOwnBudgetsCheck(auth_uid(s), b)
                 /\ \A b \in new : b.amount >= 0
                 /\ \A b \in new : \A o \in rest :
                        ~(o.category_id = b.category_id /\ o.user_id = b.user_id)
       IN IF ok
          THEN /\ budgets' = rest \cup new
               /\ replies' = [replies EXCEPT ![s] =
                        [table |-> "budgets", op |-> "update", status |-> "ok",
                         row |-> [category_id |-> c, user_id |-> target],
                         count |-> Cardinality(rows)]]
          ELSE /\ UNCHANGED budgets
               /\ replies' = [replies EXCEPT ![s] =
                        [table |-> "budgets", op |-> "update", status |-> "error",
                         row |-> [category_id |-> c, user_id |-> target],
                         count |-> 0]]
    /\ UNCHANGED <<expenseVars, budgetVars, categoryVars>>

\* DELETE FROM budgets WHERE user_id = target
DeleteBudgetRequest(s, target) ==
    /\ budgets' = DeleteBudgets(auth_uid(s), target)
    /\ replies' = [replies EXCEPT ![s] =
            [table |-> "budgets", op |-> "delete", status |-> "ok",
             row |-> [user_id |-> target],
             count |-> Cardinality(budgets \ DeleteBudgets(auth_uid(s), target))]]
    /\ UNCHANGED <<expenseVars, budgetVars, categoryVars>>

\* a policy FOR ALL on the audit tables, as the one on expenses
ManageOwnActivityLog(uid, row) == row.user_id = uid

\* activity_logs and activity_log have row level security enabled and
\* policies FOR SELECT and FOR INSERT only: an UPDATE or DELETE sees no row
ActivityLogWritable(uid, row) == FALSE

\* policy "Users can insert their own activity logs" on activity_log, after
\* its BEFORE INSERT trigger set_user_id_on_activity_log_insert
InsertOwnActivityLog(uid, row) == uid = row.user_id

\* a sequence without its element at position k
Without(seq, k) == SubSeq(seq, 1, k - 1) \o SubSeq(seq, k + 1, Len(seq))

\* INSERT INTO activity_logs / activity_log with a client-chosen user_id;
\* activity_log.expense_id REFERENCES expenses(id)
InsertActivityLogRequest(s, table, r) ==
    /\ Len(activity_logs) < MaxLogRows /\ Len(activity_log) < MaxLogRows
    /\ IF table = "activity_logs"
       THEN /\ activity_logs' = InsertActivityLog(auth_uid(s), r)
            /\ UNCHANGED activity_log
       ELSE /\ activity_log' =
                  LET new == set_activity_log_user_id(r, auth_uid(s))
                  IN IF /\ InsertOwnActivityLog(auth_uid(s), new)
                        /\ new.expense_id \in DOMAIN expenses
                     THEN Append(activity_log, new) ELSE activity_log
            /\ UNCHANGED activity_logs
    /\ replies' = [replies EXCEPT ![s] =
            IF <<activity_logs', activity_log'>> = <<activity_logs, activity_log>>
            THEN [table |-> table, op |-> "insert", status |-> "error", id |-> NoId]
            ELSE [table |-> table, op |-> "insert", status |-> "created",
                  id |-> IF table = "activity_logs" THEN Len(activity_logs')
                         ELSE Len(activity_log')]]
    /\ UNCHANGED <<expenses, budgets, listVars, form, alog, monthlyStats, chartMonthlyData, budgetVars,
                   categoryVars>>

\* the audit table after UPDATE ... SET patch WHERE id = (row k)
UpdatedActivityLog(log, uid, k, patch) ==
    IF k \in DOMAIN log /\ ActivityLogWritable(uid, log[k])
    THEN [log EXCEPT ![k] = Patched(log[k], patch)]
    ELSE log

\* the audit table after DELETE ... WHERE id = (row k)
DeletedActivityLog(log, uid, k) ==
    IF k \in DOMAIN log /\ ActivityLogWritable(uid, log[k])
    THEN Without(log, k)
    ELSE log

UpdateActivityLogRequest(s, table, k, patch) ==
    /\ activity_logs' = IF table = "activity_logs"
                        THEN UpdatedActivityLog(activity_logs, auth_uid(s), k, patch)
                        ELSE activity_logs
    /\ activity_log' = IF table = "activity_log"
                       THEN UpdatedActivityLog(activity_log, auth_uid(s), k, patch)
                       ELSE activity_log
    /\ replies' = [replies EXCEPT ![s] =
            [table |-> table, op |-> "update", status |-> "ok",
             count |-> IF <<activity_logs', activity_log'>>
                            = <<activity_logs, activity_log>> THEN 0 ELSE 1]]
    /\ UNCHANGED <<expenses, budgets, listVars, form, alog, monthlyStats, chartMonthlyData, budgetVars,
                   categoryVars>>

DeleteActivityLogRequest(s, table, k) ==
    /\ activity_logs' = IF table = "activity_logs"
                        THEN DeletedActivityLog(activity_logs, auth_uid(s), k)
                        ELSE activity_logs
    /\ activity_log' = IF table = "activity_log"
                       THEN DeletedActivityLog(activity_log, auth_uid(s), k)
                       ELSE activity_log
    /\ replies' = [replies EXCEPT ![s] =
            [table |-> table, op |-> "delete", status |-> "ok",
             count |-> IF <<activity_logs', activity_log'>>
                            = <<activity_logs, activity_log>> THEN 0 ELSE 1]]
    /\ UNCHANGED <<expenses, budgets, listVars, form, alog, monthlyStats, chartMonthlyData, budgetVars,
                   categoryVars>>

----------------------------------------------------------------------------
(* BudgetManager *)

BudgetManagerInitial ==
    [budgets |-> <<>>, error |-> "", saving |-> FALSE, loading |-> TRUE]

\* no request of the view in flight / fetchBudgets of the mount in flight
SaveIdle == [stage |-> "idle", entries |-> <<>>]
SaveMount == [stage |-> "mount", entries |-> <<>>]

\* data.reduce(...) of fetchBudgets: category_id -> amount over the rows read
BudgetRowsMap(uid) ==
    LET rows == {b \in budgets : ViewOwnBudgets(uid, b)}
    IN [c \in {b.category_id : b \in rows} |->
            (CHOOSE b \in rows : b.category_id = c).amount]

\* the view is replaced by a spinner while loading with an empty mapping
BudgetManagerShown(s) == ~(bm[s].loading /\ DOMAIN bm[s].budgets = {})

\* fetchBudgets of BudgetManager answers with rows; when handleSaveBudgets
\* awaited it, the save's finally block follows
BudgetManager_fetchBudgets(s) ==
    /\ saves[s].stage \in {"mount", "fetch"}
    /\ bm' = [bm EXCEPT ![s] =
            [@ EXCEPT !.budgets = BudgetRowsMap(auth_uid(s)),
                      !.loading = FALSE,
                      !.saving = IF saves[s].stage = "fetch" THEN FALSE ELSE @]]
    /\ saves' = [saves EXCEPT ![s] = SaveIdle]
    /\ UNCHANGED <<budgets, expenseVars, categoryVars, replies>>

\* fetchBudgets of BudgetManager answers with an error
BudgetManager_fetchBudgetsRejected(s) ==
    /\ saves[s].stage \in {"mount", "fetch"}
    /\ bm' = [bm EXCEPT ![s] =
            [@ EXCEPT !.error = "Failed to load budgets. Please try again.",
                      !.loading = FALSE,
                      !.saving = IF saves[s].stage = "fetch" THEN FALSE ELSE @]]
    /\ saves' = [saves EXCEPT ![s] = SaveIdle]
    /\ UNCHANGED <<budgets, expenseVars, categoryVars, replies>>

handleBudgetChange(s, categoryId, value) ==
    /\ BudgetManagerShown(s)
    /\ bm' = [bm EXCEPT ![s].budgets =
            [c \in DOMAIN @ \cup {categoryId} |->
                IF c = categoryId THEN parseFloat(value) ELSE @[c]]]
    /\ UNCHANGED <<budgets, saves, expenseVars, categoryVars, replies>>

\* a filter that lets an amount of zero through
BudgetsToInsertKeepingZero(entries, uid) ==
    {[category_id |-> c, amount |-> entries[c], user_id |-> uid] :
        c \in {k \in DOMAIN entries : entries[k] >= 0}}

\* Object.entries(budgets).filter(amount > 0).map(...)
BudgetsToInsert(entries, uid) ==
    {[category_id |-> c, amount |-> entries[c], user_id |-> uid] :
        c \in {k \in DOMAIN entries : entries[k] > 0}}

\* handleSaveBudgets: click on Save Budgets (disabled while saving); the
\* handler keeps the mapping of the render it was created in
handleSaveBudgets(s) ==
    /\ BudgetManagerShown(s)
    /\ ~bm[s].saving
    /\ saves[s].stage = "idle"
    /\ bm' = [bm EXCEPT ![s] = [@ EXCEPT !.saving = TRUE, !.error = ""]]
    /\ saves' = [saves EXCEPT ![s] =
            [stage |-> "delete", entries |-> bm[s].budgets]]
    /\ UNCHANGED <<budgets, expenseVars, categoryVars, replies>>

\* handleSaveBudgets: getUser and the delete succeed; with nothing to insert
\* the handler goes on to fetchBudgets
handleSaveBudgetsDeleted(s) ==
    /\ saves[s].stage = "delete"
    /\ budgets' = DeleteBudgets(auth_uid(s), auth_uid(s))
    /\ IF BudgetsToInsert(saves[s].entries, auth_uid(s)) = {}
       THEN /\ saves' = [saves EXCEPT ![s].stage = "fetch"]
            /\ bm' = [bm EXCEPT ![s].loading = TRUE]
       ELSE /\ saves' = [saves EXCEPT ![s].stage = "insert"]
            /\ bm' = bm
    /\ UNCHANGED <<expenseVars, categoryVars, replies>>

\* handleSaveBudgets: the insert succeeds, the handler goes on to fetchBudgets
handleSaveBudgetsInserted(s) ==
    /\ saves[s].stage = "insert"
    /\ InsertBudgetsAccepted(auth_uid(s),
                             BudgetsToInsert(saves[s].entries, auth_uid(s)))
    /\ budgets' = budgets \cup BudgetsToInsert(saves[s].entries, auth_uid(s))
    /\ saves' = [saves EXCEPT ![s].stage = "fetch"]
    /\ bm' = [bm EXCEPT ![s].loading = TRUE]
    /\ UNCHANGED <<expenseVars, categoryVars, replies>>

\* a catch block that reads the stored rows back into the mapping
handleSaveBudgetsRejectedReloading(s) ==
    /\ saves[s].stage \in {"delete", "insert"}
    /\ bm' = [bm EXCEPT ![s] =
            [@ EXCEPT !.error = "Failed to save budgets. Please try again.",
                      !.budgets = BudgetRowsMap(auth_uid(s)),
                      !.saving = FALSE]]
    /\ saves' = [saves EXCEPT ![s] = SaveIdle]
    /\ UNCHANGED <<budgets, expenseVars, categoryVars, replies>>

\* handleSaveBudgets: getUser, the delete or the insert is rejected
handleSaveBudgetsRejected(s) ==
    /\ saves[s].stage \in {"delete", "insert"}
    /\ bm' = [bm EXCEPT ![s] =
            [@ EXCEPT !.error = "Failed to save budgets. Please try again.",
                      !.saving = FALSE]]
    /\ saves' = [saves EXCEPT ![s] = SaveIdle]
    /\ UNCHANGED <<budgets, expenseVars, categoryVars, replies>>

----------------------------------------------------------------------------
(* The expense views of user u1 *)

\* budget rows saved earlier through BudgetManager
InitialBudgets ==
    { {[category_id |-> "c1", user_id |-> "u2", amount |-> 1]} \cup own :
        own \in { {}, {[category_id |-> "c1", user_id |-> "u1", amount |-> 1]},
                      {[category_id |-> "c1", user_id |-> "u1", amount |-> 2]} } }

\* an expense stored earlier by user u2, with the rows its insert logged
OtherUsersExpense ==
    InsertedExpense("u2", [amount |-> 2, description |-> "milk", date |-> Today,
                           category_id |-> "c1", user_id |-> NULL])

\* the default categories of the migrations (two of them) and a custom
\* category created earlier by user u2
InitialCategories ==
    {[id |-> "c1", name |-> CategoryName("c1"), icon |-> "cart",
      is_default |-> TRUE, user_id |-> NULL],
     [id |-> "c2", name |-> CategoryName("c2"), icon |-> "home",
      is_default |-> TRUE, user_id |-> NULL],
     [id |-> CategoryId(1), name |-> "Pets", icon |-> "paw",
      is_default |-> FALSE, user_id |-> "u2"]}

\* every view freshly mounted, its first requests in flight
InitViews ==
    /\ list = [s \in ListSessions |-> ListInitial]
    /\ fetches = [s \in ListSessions |-> {FetchOf(ListInitial)}]
    /\ bfetches = [s \in ListSessions |-> 1]
    /\ dels = [s \in ListSessions |-> {}]
    /\ form = [s \in Sessions |-> FormIdle]
    /\ alog = [s \in ListSessions |-> <<>>]
    /\ monthlyStats = [s \in ListSessions |-> <<>>]
    /\ chartMonthlyData = [s \in ListSessions |-> <<>>]
    /\ bm = [s \in BudgetSessions |-> BudgetManagerInitial]
    /\ saves = [s \in BudgetSessions |-> SaveMount]
    /\ cm = [s \in CategorySessions |-> CategoryManagerInitial]
    /\ replies = [s \in Sessions |-> NoReply]

InitExpenses ==
    /\ expenses = <<OtherUsersExpense>>
    /\ activity_logs = <<[action |-> "add", entity_id |-> 1, amount |-> 2,
                          description |-> "milk", category |-> CategoryName("c1"),
                          user_id |-> "u2"]>>
    /\ activity_log = log_expense_creation(<<>>, 1, "u2")

InitCategories ==
    /\ categories = InitialCategories
    /\ uuids = 1

Init ==
    /\ InitExpenses
    /\ InitCategories
    /\ budgets \in InitialBudgets
    /\ InitViews

FilterStartDates == {0, MonthStart}
FilterEndDates == {Today, MonthEnd}
FilterCategories == {"all", "c1"}

\* what the user types into the expense form
FormInputs ==
    [amount : AmountInputs \ {""}, description : Descriptions,
     categoryId : Categories, date : Days]
        \cup {[amount |-> "", description |-> "milk", categoryId |-> "c1", date |-> Today],
              [amount |-> "1", description |-> "milk", categoryId |-> "", date |-> Today],
              [amount |-> "1", description |-> "milk", categoryId |-> "c1", date |-> NoDate]}

Submit ==
    \E in \in FormInputs :
        \/ handleSubmitInvalid("s1", in.amount, in.categoryId, in.date)
        \/ handleSubmitInsert("s1", in.amount, in.description, in.categoryId, in.date)

SubmitRejected == handleSubmitRejected("s1")

SubmitLog ==
    \/ handleSubmitLogged("s1")
    \/ handleSubmitLogRejected("s1")

ChangeFilter ==
    \E s \in ListSessions :
        \/ \E d \in FilterStartDates : setStartDate(s, d)
        \/ \E d \in FilterEndDates : setEndDate(s, d)
        \/ \E c \in FilterCategories : setSelectedCategory(s, c)

FetchAnswer ==
    \E s \in ListSessions :
        \/ \E f \in fetches[s] : fetchExpensesList(s, f)
        \/ \E f \in fetches[s] : fetchExpensesMonth(s, f)
        \/ \E f \in fetches[s] : fetchExpensesRejected(s, f)
        \/ fetchBudgets(s)
        \/ fetchBudgetsRejected(s)

Delete ==
    \E s \in ListSessions :
        \/ \E k \in DOMAIN list[s].expenses : handleDelete(s, k)
        \/ \E d \in dels[s] : handleDeleteUpdate(s, d)
        \/ \E d \in dels[s] : handleDeleteLog(s, d)
        \/ \E d \in dels[s] : handleDeleteRejected(s, d)

Next ==
    \/ Submit
    \/ SubmitRejected
    \/ SubmitLog
    \/ ChangeFilter
    \/ FetchAnswer
    \/ Delete

Spec == Init /\ [][Next]_vars

----------------------------------------------------------------------------
(* Claims about the expense views *)

\* the rows of user uid and category c dated in the current month
\* (MonthStart..MonthEnd) whose is_deleted flag is false
CurrentMonthRows(uid, c) ==
    {i \in DOMAIN expenses :
        /\ expenses[i].user_id = uid
        /\ expenses[i].category_id = c
        /\ expenses[i].date \in MonthStart..MonthEnd
        /\ expenses[i].is_deleted = FALSE}

CurrentMonthTotal(uid, c) ==
    SumOver([i \in DOMAIN expenses |-> expenses[i].amount], CurrentMonthRows(uid, c))

\* C1: every categoryTotals[c] that fetchExpenses computes is the sum of the
\* amounts of the user's expenses of category c dated in the current month
\* whose is_deleted flag is false.
C1_TotalsAreCurrentMonthUndeleted ==
    [][\A s \in ListSessions : \A f \in fetches[s] :
          fetchExpensesMonth(s, f) =>
              \A c \in Categories :
                  list'[s].categoryTotals[c] = CurrentMonthTotal(auth_uid(s), c)]_vars

\* handleSubmit ran to its end for the expense with id i
SubmitSucceeded(i) ==
    \E k \in DOMAIN activity_logs :
        activity_logs[k].action = "add" /\ activity_logs[k].entity_id = i

\* what the second query of fetchExpenses would sum for category c if row i
\* had never been stored
MonthTotalWithout(uid, c, i) ==
    SumOver([j \in DOMAIN expenses |-> expenses[j].amount],
            {j \in MonthExpenses(uid) : expenses[j].category_id = c /\ j # i})

\* rows[k] stands where date-descending order puts it
InDateOrder(rows, k) ==
    /\ \A j \in 1..(k - 1) : rows[j].date >= rows[k].date
    /\ \A j \in (k + 1)..Len(rows) : rows[j].date <= rows[k].date
    /\ (\A j \in DOMAIN rows : j # k => rows[j].date < rows[k].date) => k = 1

\* C5: an expense created through the form with a date inside the current
\* month is returned by the next list fetch covering its date, at the place
\* date-descending order gives it, and the fetched total of its category is
\* its amount greater than it would be without the expense.
C5_CreatedExpenseListedAndCounted ==
    [][\A s \in ListSessions : \A f \in fetches[s] :
        \A i \in VisibleExpenses(auth_uid(s)) :
          (/\ SubmitSucceeded(i)
           /\ expenses[i].date \in MonthStart..MonthEnd
           /\ ~expenses[i].is_deleted)
          =>
          /\ (/\ fetchExpensesList(s, f)
              /\ f.startDate <= expenses[i].date
              /\ expenses[i].date <= f.endDate
              /\ f.selectedCategory \in {"all", expenses[i].category_id}
              /\ f.currentPage = 1)
             => \E k \in DOMAIN list'[s].expenses :
                    /\ list'[s].expenses[k].id = i
                    /\ InDateOrder(list'[s].expenses, k)
          /\ fetchExpensesMonth(s, f)
             => list'[s].categoryTotals[expenses[i].category_id]
                  = MonthTotalWithout(auth_uid(s), expenses[i].category_id, i)
                        + expenses[i].amount]_vars

\* the list's totals agree with the table, d's expense counted as not deleted
TotalsInSyncBefore(s, d) ==
    \A c \in Categories :
        list[s].categoryTotals[c] =
            MonthTotalWithout(auth_uid(s), c, d.expense.id)
              + (IF /\ c = d.expense.category_id
                    /\ d.expense.date >= MonthStart /\ d.expense.date <= Today
                 THEN d.expense.amount ELSE 0)

\* C6: when handleDelete succeeds the row is kept with is_deleted = true, the
\* list query still returns it and the list shows it marked deleted, and the
\* total of its category is back at the value it had without the expense.
C6_DeleteRestoresTotals ==
    [][\A s \in ListSessions : \A d \in dels[s] :
          (handleDeleteLog(s, d) /\ TotalsInSyncBefore(s, d)) =>
              LET i == d.expense.id
                  c == d.expense.category_id
              IN /\ i \in DOMAIN expenses' /\ expenses'[i].is_deleted
                 /\ \A k \in DOMAIN list[s].expenses :
                        list[s].expenses[k].id = i =>
                            list'[s].expenses[k].is_deleted
                 /\ \A sd \in Days, ed \in Days :
                        (sd <= expenses'[i].date /\ expenses'[i].date <= ed) =>
                            i \in ListFilter(auth_uid(s),
                                    [startDate |-> sd, endDate |-> ed,
                                     selectedCategory |-> "all", currentPage |-> 1])
                 /\ list'[s].categoryTotals[c]
                        = MonthTotalWithout(auth_uid(s), c, i)]_vars

\* C26: when handleDelete succeeds on a listed expense and the totals of the
\* list agreed with the table before it, the totals it leaves are, for every
\* category, what the month query of fetchExpenses would now compute.
C26_TotalsMatchFreshFetch ==
    [][\A s \in ListSessions : \A d \in dels[s] :
          (handleDeleteLog(s, d) /\ TotalsInSyncBefore(s, d)) =>
              \A c \in Categories :
                  list'[s].categoryTotals[c] = MonthTotals(auth_uid(s))[c]]_vars

\* C8: with budgets and totals freshly fetched, a listed non-deleted row of
\* category c is flagged exactly when the user has a budget b > 0 for c and
\* the current-month total of undeleted expenses of c exceeds b.
C8_FlaggedIffOverBudget ==
    [][\A s \in ListSessions : \A f \in fetches[s] :
          (fetchExpensesMonth(s, f) /\ list[s].budgets = BudgetMap(auth_uid(s))) =>
              \A k \in DOMAIN list'[s].expenses :
                  LET c == list'[s].expenses[k].category_id
                      b == BudgetMap(auth_uid(s))[c]
                  IN ~list'[s].expenses[k].is_deleted =>
                        (isOverBudget(list'[s], c) <=>
                            (b > 0 /\ CurrentMonthTotal(auth_uid(s), c) > b))]_vars

\* C10: no step removes an expense row, and a step changes of a stored row
\* at most is_deleted and deleted_at.
C10_ExpensesOnlySoftDeleted ==
    [][/\ Len(expenses') >= Len(expenses)
       /\ \A i \in DOMAIN expenses :
            /\ expenses'[i] = [expenses[i] EXCEPT
                                  !.is_deleted = expenses'[i].is_deleted,
                                  !.deleted_at = expenses'[i].deleted_at]
            /\ expenses'[i] # expenses[i] =>
                  expenses'[i].is_deleted /\ expenses'[i].deleted_at # NULL]_vars

\* handleDelete has soft-deleted an expense of the list's user and logged it
C10_Witness ==
    \E i \in DOMAIN expenses :
        /\ expenses[i].is_deleted /\ expenses[i].user_id = "u1"
        /\ \E k \in DOMAIN activity_logs :
              activity_logs[k].action = "delete" /\ activity_logs[k].entity_id = i

----------------------------------------------------------------------------
(* The budget view of user u1, no other session writing *)

\* what u1 and u2 saved earlier
SavedBudgets ==
    { {[category_id |-> "c1", user_id |-> "u2", amount |-> 1]} \cup own :
        own \in { {},
                  {[category_id |-> "c2", user_id |-> "u1", amount |-> 1]},
                  {[category_id |-> "c1", user_id |-> "u1", amount |-> 2],
                   [category_id |-> "c2", user_id |-> "u1", amount |-> 1]} } }

InitBudget ==
    /\ InitExpenses
    /\ InitCategories
    /\ budgets \in SavedBudgets
    /\ InitViews

BudgetInputs == {"", "1", "2", "-1"}    \* text typed into a budget field

BudgetEdit ==
    \E c \in Categories : \E v \in BudgetInputs : handleBudgetChange("s1", c, v)

BudgetSave ==
    \/ handleSaveBudgets("s1")
    \/ handleSaveBudgetsDeleted("s1")
    \/ handleSaveBudgetsInserted("s1")
    \/ handleSaveBudgetsRejected("s1")

BudgetFetch ==
    \/ BudgetManager_fetchBudgets("s1")
    \/ BudgetManager_fetchBudgetsRejected("s1")

NextBudget == BudgetEdit \/ BudgetSave \/ BudgetFetch

SpecBudget == InitBudget /\ [][NextBudget]_vars

\* C2: when a save ends without an error, the user's rows in budgets are, for
\* every category, the one row carrying the amount entered at the time of the
\* click if that amount is strictly positive, and no row otherwise.
C2_SaveReplacesBudgetSet ==
    [][\A s \in BudgetSessions :
          (BudgetManager_fetchBudgets(s) /\ saves[s].stage = "fetch") =>
              \A c \in Categories :
                  LET entered == IF c \in DOMAIN saves[s].entries
                                 THEN saves[s].entries[c] ELSE 0
                      rows == {b \in budgets' : /\ b.user_id = auth_uid(s)
                                                /\ b.category_id = c}
                  IN IF entered > 0
                     THEN rows = {[category_id |-> c, user_id |-> auth_uid(s),
                                   amount |-> entered]}
                     ELSE rows = {}]_vars

\* the delete and the insert of a save have run for a mapping with a positive
\* and a zero amount, and the table holds the one positive row
C2_Witness ==
    /\ saves["s1"].stage = "fetch"
    /\ \E c \in DOMAIN saves["s1"].entries : saves["s1"].entries[c] > 0
    /\ \E c \in DOMAIN saves["s1"].entries : saves["s1"].entries[c] = 0
    /\ Cardinality({b \in budgets : b.user_id = "u1"}) = 1

----------------------------------------------------------------------------
(* Two sessions of user u1 with the budget view open *)

RaceInputs == {"", "1"}

RaceEdit ==
    \E s \in BudgetSessions : \E c \in Categories : \E v \in RaceInputs :
        handleBudgetChange(s, c, v)

RaceSave ==
    \E s \in BudgetSessions :
        \/ handleSaveBudgets(s)
        \/ handleSaveBudgetsDeleted(s)
        \/ handleSaveBudgetsInserted(s)
        \/ handleSaveBudgetsRejected(s)

RaceFetch ==
    \E s \in BudgetSessions :
        \/ BudgetManager_fetchBudgets(s)
        \/ BudgetManager_fetchBudgetsRejected(s)

NextBudgetRace == RaceEdit \/ RaceSave \/ RaceFetch

InitBudgetRace ==
    /\ InitExpenses
    /\ InitCategories
    /\ budgets = {[category_id |-> "c1", user_id |-> "u2", amount |-> 1],
                  [category_id |-> "c1", user_id |-> "u1", amount |-> 2]}
    /\ InitViews

SpecBudgetRace == InitBudgetRace /\ [][NextBudgetRace]_vars

\* C11: in every state the budgets table holds at most one row for each
\* (category_id, user_id) pair and no row with a negative amount, also while
\* the saves of two sessions of one user are between their delete and insert.
C11_BudgetsUniqueAndNonNegative ==
    /\ \A b \in budgets : b.amount >= 0
    /\ \A b \in budgets : \A o \in budgets :
          (b.category_id = o.category_id /\ b.user_id = o.user_id) => b = o

\* both sessions have deleted, one has inserted its row for a category and
\* the other is about to insert a row for the same category
C11_Witness ==
    /\ saves["s1"].stage = "fetch" /\ saves["s3"].stage = "insert"
    /\ \E c \in DOMAIN saves["s3"].entries :
          /\ saves["s3"].entries[c] > 0
          /\ \E b \in budgets : b.user_id = "u1" /\ b.category_id = c

\* the delete and the insert of the save of session s are both answered, or
\* the delete alone when the save has nothing to insert
SaveWritten(s) ==
    /\ saves[s].stage \in {"delete", "insert"}
    /\ saves'[s].stage = "fetch"

\* session s has a save between its delete and the answer to its insert
SaveWriting(s) == saves[s].stage \in {"delete", "insert"}

\* C20: when the save of one session has written (delete and insert answered
\* without error) and no save of the user's other session is still writing,
\* the user's rows in budgets are exactly the rows that save submitted.
C20_LastFullSaveWins ==
    [][\A s \in BudgetSessions :
          (SaveWritten(s) /\ \A o \in BudgetSessions \ {s} : ~SaveWriting(o)) =>
              {b \in budgets' : b.user_id = auth_uid(s)}
                  = BudgetsToInsert(saves[s].entries, auth_uid(s))]_vars

----------------------------------------------------------------------------
(* The category view of user u1, and direct requests of u1 and u2 *)

NameInputs == {" ", "Toys "}
IconInputs == {"", "paw"}
CategoryRequestIds == {"c1", CategoryId(2)}
CategoryPatches ==
    {[name |-> "Toys"], [is_default |-> FALSE, user_id |-> "u1"],
     [is_default |-> TRUE, user_id |-> NULL]}
CategoryInserts ==
    [name : {"Toys"}, icon : {"paw"}, is_default : BOOLEAN,
     user_id : {NULL, "u1"}]

CategoryFetch ==
    \/ fetchCategories("s1")
    \/ fetchCategoriesRejected("s1")

CategoryAdd ==
    \/ AddCategory("s1")
    \/ \E v \in NameInputs : setNewCategoryName("s1", v)
    \/ \E v \in IconInputs : setNewCategoryIcon("s1", v)
    \/ CancelAdding("s1")
    \/ handleAddCategoryInvalid("s1")
    \/ handleAddCategory("s1")
    \/ handleAddCategoryInserted("s1")
    \/ handleAddCategoryRejected("s1")

CategoryEdit ==
    \/ \E c \in cm["s1"].categories : startEditing("s1", c)
    \/ \E v \in NameInputs : setEditName("s1", v)
    \/ \E v \in IconInputs : setEditIcon("s1", v)
    \/ cancelEditing("s1")
    \/ handleUpdateCategoryInvalid("s1")
    \/ handleUpdateCategory("s1")
    \/ handleUpdateCategoryUpdated("s1")
    \/ handleUpdateCategoryRejected("s1")

CategoryRequest ==
    \E s \in Sessions :
        \/ \E r \in CategoryInserts : InsertCategoryRequest(s, r)
        \/ \E id \in CategoryRequestIds : \E patch \in CategoryPatches :
                UpdateCategoryRequest(s, id, patch)
        \/ \E id \in CategoryRequestIds : DeleteCategoryRequest(s, id)

NextCategory == CategoryFetch \/ CategoryAdd \/ CategoryEdit \/ CategoryRequest

InitCategory ==
    /\ InitExpenses
    /\ InitCategories
    /\ budgets = {}
    /\ InitViews

SpecCategory == InitCategory /\ [][NextCategory]_vars

\* C4: a row of categories with is_default = true is left as it is by every
\* step, whoever requests an update or a delete of it; and the category whose
\* Edit action CategoryManager offers, or whose edit form it has open, is
\* never a default category.
C4_DefaultCategoriesImmutable ==
    /\ [][\A c \in categories : c.is_default => c \in categories']_vars
    /\ [](\A s \in CategorySessions : \A c \in categories :
            c.is_default =>
                /\ cm[s].editingId # c.id
                /\ \A shown \in cm[s].categories :
                        shown.id = c.id => ~EditOffered(shown))

\* both users have asked the backend to change a default category: u1 sent
\* an update and got "no row", u2 sent a delete and got "no row"
C4_Witness ==
    /\ replies["s1"].table = "categories" /\ replies["s1"].op = "update"
    /\ replies["s1"].category_id = "c1" /\ replies["s1"].count = 0
    /\ replies["s2"].table = "categories" /\ replies["s2"].op = "delete"
    /\ replies["s2"].category_id = "c1" /\ replies["s2"].count = 0
    /\ \E c \in cm["s1"].categories : c.is_default

\* C17: when the backend answers a category insert or update of
\* CategoryManager with an error, the view shows "Failed to add category.
\* Please try again." or "Failed to update category. Please try again.",
\* keeps the form open and starts no refresh of the list; it closes the form
\* and refreshes only after a request the policies let through, and no
\* request of the view is one the policies deny.
C17_RejectionShowsTryAgain ==
    /\ [][\A s \in CategorySessions :
            /\ handleAddCategoryRejected(s) =>
                  /\ cm'[s].error = "Failed to add category. Please try again."
                  /\ cm'[s].isAdding /\ ~cm'[s].saving
                  /\ cm'[s].newCategoryName = cm[s].newCategoryName
                  /\ cm'[s].fetching = cm[s].fetching
                  /\ cm'[s].categories = cm[s].categories
                  /\ categories' = categories
            /\ handleUpdateCategoryRejected(s) =>
                  /\ cm'[s].error = "Failed to update category. Please try again."
                  /\ cm'[s].editingId = cm[s].editingId /\ ~cm'[s].saving
                  /\ cm'[s].fetching = cm[s].fetching
                  /\ cm'[s].categories = cm[s].categories
                  /\ categories' = categories
            /\ (cm[s].pc = "update" /\ cm'[s].pc = "idle"
                    /\ cm'[s].fetching > cm[s].fetching) =>
                  UpdateCategoryAccepted(auth_uid(s), cm[s].req.id,
                        [name |-> cm[s].req.name, icon |-> cm[s].req.icon])]_vars
    /\ [](\A s \in CategorySessions :
            /\ cm[s].pc = "add" =>
                  InsertCategoryAccepted(auth_uid(s),
                        [id |-> CategoryId(uuids + 1), name |-> cm[s].req.name,
                         icon |-> cm[s].req.icon, is_default |-> FALSE,
                         user_id |-> auth_uid(s)])
            /\ cm[s].pc = "update" =>
                  \A c \in categories :
                        c.id = cm[s].req.id =>
                            /\ c \in UpdateCategoryRows(auth_uid(s), c.id)
                            /\ UpdateCategoryAccepted(auth_uid(s), c.id,
                                  [name |-> cm[s].req.name, icon |-> cm[s].req.icon]))

\* an update of the view was answered with an error: the message is shown
\* and the edit form is still open on the category, which is still stored
C17_Witness ==
    /\ cm["s1"].error = "Failed to update category. Please try again."
    /\ cm["s1"].editingId # NULL /\ cm["s1"].pc = "idle"
    /\ \E c \in categories : c.id = cm["s1"].editingId

----------------------------------------------------------------------------
(* The category view of user u1 while user u2 sends requests on categories *)

VisibilityInserts ==
    [name : {"Toys"}, icon : {"paw"}, is_default : BOOLEAN,
     user_id : {NULL, "u1", "u2"}]
VisibilityPatches ==
    {[name |-> "Toys"], [user_id |-> "u1"],
     [is_default |-> TRUE, user_id |-> NULL]}
VisibilityRequestIds == {CategoryId(1), CategoryId(2)}

VisibilityRequest ==
    \/ \E r \in VisibilityInserts : InsertCategoryRequest("s2", r)
    \/ \E id \in VisibilityRequestIds : \E patch \in VisibilityPatches :
            UpdateCategoryRequest("s2", id, patch)
    \/ \E id \in VisibilityRequestIds : DeleteCategoryRequest("s2", id)

NextVisibility == CategoryFetch \/ CategoryAdd \/ CategoryEdit \/ VisibilityRequest

SpecVisibility == InitCategory /\ [][NextVisibility]_vars

\* C12: a fetchCategories of a session of user u loads exactly the rows of
\* categories with is_default = true or user_id = u, and the list a session
\* holds never contains a custom category owned by another user.
C12_LoadedCategoriesOwnOrDefault ==
    /\ [][\A s \in CategorySessions :
            fetchCategories(s) =>
                cm'[s].categories =
                    {c \in categories :
                        c.is_default = TRUE \/ c.user_id = auth_uid(s)}]_vars
    /\ [](\A s \in CategorySessions : \A c \in cm[s].categories :
            c.is_default = TRUE \/ c.user_id = auth_uid(s))

\* u2 owns two custom categories, u1 has created one of its own, and the list
\* u1 loaded afterwards shows u1's category next to the default ones
C12_Witness ==
    /\ Cardinality({c \in categories : c.user_id = "u2"}) = 2
    /\ \E c \in cm["s1"].categories : c.user_id = "u1"
    /\ \E c \in cm["s1"].categories : c.is_default
    /\ cm["s1"].fetching = 0

\* the rows of categories a step stores, changes or removes
CategoriesAdded == {c \in categories' : \A o \in categories : o.id # c.id}
CategoriesTouched == {c \in categories : c \notin categories'}

\* the step carries the backend's answer to a request of session s: to a
\* request sent directly, or to the insert or update of CategoryManager
CategoryAnswered(s) ==
    \/ replies'[s] # replies[s]
    \/ /\ s \in CategorySessions
       /\ cm[s].pc \in {"add", "update"} /\ cm'[s].pc = "idle"

\* C13: a step on categories by user u stores only a non-default row owned
\* by u and changes or removes only non-default rows owned by u, which stay
\* non-default and owned by u; so in every state a default category has no
\* owner and a custom category is non-default and owned by a user, the one
\* who created it.
C13_CategoryWritesOwnNonDefault ==
    /\ [][\A s \in Sessions :
            CategoryAnswered(s)
            => /\ \A c \in CategoriesAdded \cup CategoriesTouched :
                    ~c.is_default /\ c.user_id = auth_uid(s)
               /\ \A c \in categories : \A n \in categories' :
                    c.id = n.id =>
                        n.is_default = c.is_default /\ n.user_id = c.user_id]_vars
    /\ [][categories' # categories =>
            /\ \E s \in Sessions : CategoryAnswered(s)
            /\ \A s \in Sessions : \A o \in Sessions :
                    CategoryAnswered(s) /\ CategoryAnswered(o) => s = o]_vars
    /\ [](\A c \in categories :
            IF c.is_default THEN c.user_id = NULL ELSE c.user_id \in Users)

\* u2 has asked to store a default row and to hand a category over to u1,
\* and was refused; both users own a custom category
C13_Witness ==
    /\ replies["s2"].table = "categories" /\ replies["s2"].op = "update"
    /\ replies["s2"].status = "error"
    /\ \E c \in categories : ~c.is_default /\ c.user_id = "u1"
    /\ \E c \in categories : ~c.is_default /\ c.user_id = "u2"
    /\ uuids = MaxCategories

----------------------------------------------------------------------------
(* The expense form and the category view of u1 with fields left empty *)

\* one complete input and one input for each required field left empty
ValidationInputs ==
    {[amount |-> "1", description |-> "milk", categoryId |-> "c1", date |-> Today],
     [amount |-> "", description |-> "milk", categoryId |-> "c1", date |-> Today],
     [amount |-> "1", description |-> "milk", categoryId |-> "", date |-> Today],
     [amount |-> "1", description |-> "milk", categoryId |-> "c1", date |-> NoDate]}

ValidationSubmit ==
    \E in \in ValidationInputs :
        \/ handleSubmitInvalid("s1", in.amount, in.categoryId, in.date)
        \/ handleSubmitInsert("s1", in.amount, in.description, in.categoryId, in.date)

NextValidation ==
    \/ ValidationSubmit \/ SubmitRejected \/ SubmitLog
    \/ CategoryFetch \/ CategoryAdd \/ CategoryEdit

SpecValidation == InitCategory /\ [][NextValidation]_vars

\* C16: a submit of the expense form with amount, category or date missing,
\* and an add or update of a category whose name or icon is empty after
\* trimming, sets the validation message, sends no request and leaves every
\* table as it is; no step sends a request for such an input.
C16_MissingFieldStopsBeforeRequest ==
    /\ [][\A in \in ValidationInputs :
            (in.amount = "" \/ in.categoryId = "" \/ in.date = NoDate) =>
                /\ ~handleSubmitInsert("s1", in.amount, in.description,
                                       in.categoryId, in.date)
                /\ handleSubmitInvalid("s1", in.amount, in.categoryId, in.date) =>
                      /\ form'["s1"].error = "Please fill in all required fields"
                      /\ form'["s1"].pc = "idle" /\ ~form'["s1"].navigated
                      /\ UNCHANGED <<dbVars, categories>>]_vars
    /\ [][\A s \in CategorySessions :
            /\ (cm[s].pc = "idle" /\ cm'[s].pc = "add") =>
                  trim(cm[s].newCategoryName) # "" /\ trim(cm[s].newCategoryIcon) # ""
            /\ (cm[s].pc = "idle" /\ cm'[s].pc = "update") =>
                  trim(cm[s].editName) # "" /\ trim(cm[s].editIcon) # ""
            /\ (handleAddCategoryInvalid(s) \/ handleUpdateCategoryInvalid(s)) =>
                  /\ cm'[s].error = "Please fill in all fields"
                  /\ cm'[s].pc = "idle" /\ ~cm'[s].saving
                  /\ UNCHANGED <<dbVars, categories>>]_vars
    /\ [](\A i \in DOMAIN expenses :
            expenses[i].category_id # "" /\ expenses[i].date # NoDate)

\* the form shows its validation message, and the category view shows its
\* own with the edit form open on a blank name
C16_Witness ==
    /\ form["s1"].error = "Please fill in all required fields"
    /\ cm["s1"].error = "Please fill in all fields"
    /\ cm["s1"].editingId # NULL /\ trim(cm["s1"].editName) = ""
    /\ cm["s1"].pc = "idle"

----------------------------------------------------------------------------
(* Direct requests on expenses by u1 and u2, next to the form of u1 *)

ExpensePayloads ==
    [amount : {1, 2}, description : {"milk"}, date : {Today},
     category_id : {"c1"}, user_id : {NULL, "u1", "u2"}]

ExpensePatches ==
    {[user_id |-> "u1"], [user_id |-> "u2"], [amount |-> 1],
     [is_deleted |-> TRUE, deleted_at |-> "now"]}

ExpenseRequest ==
    \E s \in Sessions :
        \/ \E r \in ExpensePayloads : InsertExpenseRequest(s, r)
        \/ \E i \in DOMAIN expenses : \E patch \in ExpensePatches :
                UpdateExpenseRequest(s, i, patch)

SubmitToday ==
    \E a \in AmountInputs \ {""} :
        handleSubmitInsert("s1", a, "milk", "c1", Today)

NextOwner == ExpenseRequest \/ SubmitToday \/ SubmitLog

SpecOwner == Init /\ [][NextOwner]_vars

\* C9: an insert into expenses stores the row under the identity of the
\* session that sent it, whatever user_id the request carried, and no step
\* changes the user_id of a stored row.
C9_OwnerIsInserter ==
    /\ [][\A s \in Sessions : \A r \in ExpensePayloads :
            InsertExpenseRequest(s, r) =>
                /\ Len(expenses') = Len(expenses) + 1
                /\ expenses'[Len(expenses')].user_id = auth_uid(s)]_vars
    /\ [][\A a \in AmountInputs :
            handleSubmitInsert("s1", a, "milk", "c1", Today) =>
                expenses'[Len(expenses')].user_id = auth_uid("s1")]_vars
    /\ [][\A i \in DOMAIN expenses :
            i \in DOMAIN expenses' /\ expenses'[i].user_id = expenses[i].user_id]_vars
    /\ [](\A s \in Sessions :
            (/\ replies[s].table = "expenses" /\ replies[s].op = "insert"
             /\ replies[s].status = "created")
            => expenses[replies[s].expense_id].user_id = auth_uid(s))

\* u1 inserted a row naming u2 as its owner and it is stored as u1's; u2 then
\* sent an update of that row
C9_Witness ==
    /\ replies["s1"].table = "expenses" /\ replies["s1"].op = "insert"
    /\ replies["s1"].status = "created" /\ replies["s1"].user_id = "u2"
    /\ expenses[replies["s1"].expense_id].user_id = "u1"
    /\ replies["s2"].table = "expenses" /\ replies["s2"].op = "update"
    /\ replies["s2"].expense_id = replies["s1"].expense_id

----------------------------------------------------------------------------
(* The expense form of u1 while u2 stores expenses of its own *)

FormRequest == \E r \in ExpensePayloads : InsertExpenseRequest("s2", r)

NextForm == Submit \/ SubmitRejected \/ SubmitLog \/ FormRequest

\* the tables as the migrations create them: no expense stored yet
InitForm ==
    /\ expenses = <<>>
    /\ activity_logs = <<>>
    /\ activity_log = <<>>
    /\ InitCategories
    /\ budgets = {}
    /\ InitViews

SpecForm == InitForm /\ [][NextForm]_vars

----------------------------------------------------------------------------
(* The expense list next to the Activity Log view *)

Activities == \E s \in ListSessions : fetchActivities(s)

NextActivity == SubmitToday \/ SubmitLog \/ FetchAnswer \/ Delete \/ Activities

SpecActivity == Init /\ [][NextActivity]_vars

\* handleDelete of session s ran to its end for the expense with id i
DeleteSucceeded(s, i) ==
    \E k \in DOMAIN activity_logs :
        /\ activity_logs[k].action = "delete"
        /\ activity_logs[k].entity_id = i
        /\ activity_logs[k].user_id = auth_uid(s)

\* C7: the rows a fetchActivities shows contain, for every expense a
\* handleDelete of the user succeeded on, an entry with action 'delete'
\* referencing that expense.
C7_DeleteEntryShown ==
    [][\A s \in ListSessions :
          fetchActivities(s) =>
              \A i \in DOMAIN expenses :
                  DeleteSucceeded(s, i) =>
                      \E k \in DOMAIN alog'[s] :
                          /\ alog'[s][k].action = "delete"
                          /\ alog'[s][k].expense_id = i]_vars

----------------------------------------------------------------------------
(* The statistics view next to the form and the list *)

StatsInputs ==
    {[amount |-> "1", description |-> "milk", categoryId |-> "c1", date |-> Today],
     [amount |-> "2", description |-> "milk", categoryId |-> "c1", date |-> Today],
     [amount |-> "1", description |-> "milk", categoryId |-> "c2", date |-> Today],
     [amount |-> "2", description |-> "milk", categoryId |-> "c1", date |-> 0]}

StatsSubmit ==
    \E in \in StatsInputs :
        handleSubmitInsert("s1", in.amount, in.description, in.categoryId, in.date)

Stats == \E s \in ListSessions : fetchMonthlyStats(s)

NextStats == StatsSubmit \/ SubmitLog \/ FetchAnswer \/ Delete \/ Stats

SpecStats == InitForm /\ [][NextStats]_vars

\* the expenses of uid in the range of the statistics that are not deleted
ActiveStatsRows(uid) == {i \in StatsRows(uid) : ~expenses[i].is_deleted}

\* C19: what fetchMonthlyStats sets is the statistics of the user's expenses
\* that are not soft-deleted: a row with is_deleted = true adds nothing to a
\* month's total or to its per-category amounts; and the rows of expenses
\* stay stored, whatever is deleted.
C19_StatsExcludeSoftDeleted ==
    /\ [][\A s \in ListSessions :
            fetchMonthlyStats(s) =>
                monthlyStats'[s] = monthlyData(ActiveStatsRows(auth_uid(s)))]_vars
    /\ [][/\ Len(expenses') >= Len(expenses)
          /\ \A i \in DOMAIN expenses :
                expenses[i].is_deleted =>
                    expenses'[i] = expenses[i]]_vars

\* the rows of activity_logs with the given action for expense id
ClientLogRows(log, action, id) ==
    {k \in DOMAIN log : log[k].action = action /\ log[k].entity_id = id}

\* C22: when the insert into activity_logs of handleSubmit is rejected after
\* the expense was inserted, the expense stays stored, activity_logs gets no
\* 'add' row for it, and the form shows 'Failed to add expense. Please try
\* again.' without navigating; when the insert into activity_logs of
\* handleDelete is rejected after the update, the expense stays flagged
\* deleted, activity_logs gets no row, 'Failed to delete expense' is shown and
\* the row of the list is not marked; neither handler sends a further request.
C22_NoRecoveryAfterPartialFailure ==
    /\ [][\A s \in ListSessions :
            (form[s].pc = "log" /\ form'[s].pc = "idle" /\ ~form'[s].navigated) =>
                LET id == form[s].expense_id
                IN /\ id \in DOMAIN expenses' /\ expenses' = expenses
                   /\ activity_logs' = activity_logs
                   /\ ClientLogRows(activity_logs', "add", id) = {}
                   /\ form'[s].error = "Failed to add expense. Please try again."]_vars
    /\ [][\A s \in ListSessions : \A d \in dels[s] :
            (d.stage = "log" /\ handleDeleteRejected(s, d)) =>
                /\ expenses' = expenses
                /\ expenses'[d.expense.id].is_deleted
                /\ activity_logs' = activity_logs
                /\ list'[s].error = "Failed to delete expense"
                /\ list'[s].deleting = NoId
                /\ list'[s].expenses = list[s].expenses
                /\ dels'[s] = dels[s] \ {d}]_vars

\* the form and the list both show a failure; the expense the form stored has
\* no 'add' row and the expense flagged deleted has no 'delete' row
C22_Witness ==
    /\ form["s1"].error = "Failed to add expense. Please try again."
    /\ list["s1"].error = "Failed to delete expense"
    /\ dels["s1"] = {}
    /\ \E i \in DOMAIN expenses :
          /\ expenses[i].user_id = "u1" /\ expenses[i].is_deleted
          /\ ClientLogRows(activity_logs, "delete", i) = {}
    /\ \E i \in DOMAIN expenses :
          /\ expenses[i].user_id = "u1"
          /\ ClientLogRows(activity_logs, "add", i) = {}

\* the calendar month a date lies in
CalendarMonth(date) == IF date >= MonthStart THEN "current" ELSE "previous"

\* C24: what fetchMonthlyStats sets has exactly one entry for each calendar
\* month in which a returned expense lies; the entry's total is the sum of
\* the amounts of the month's expenses, it has one amount for each category
\* met in the month, the sum over that month and category, under the
\* category's name, and the total is the sum of these amounts.
C24_OneEntryPerMonthWithSums ==
    [][\A s \in ListSessions :
          fetchMonthlyStats(s) =>
              LET rows == StatsRows(auth_uid(s))
                  stats == monthlyStats'[s]
                  amounts == [i \in DOMAIN expenses |-> expenses[i].amount]
              IN /\ DOMAIN stats = {CalendarMonth(expenses[i].date) : i \in rows}
                 /\ \A m \in DOMAIN stats :
                      LET ofMonth == {i \in rows : CalendarMonth(expenses[i].date) = m}
                          cats == stats[m].categories
                      IN /\ stats[m].month = m
                         /\ stats[m].total = SumOver(amounts, ofMonth)
                         /\ DOMAIN cats = {expenses[i].category_id : i \in ofMonth}
                         /\ \A c \in DOMAIN cats :
                              /\ cats[c].name = CategoryName(c)
                              /\ cats[c].amount = SumOver(amounts,
                                    {i \in ofMonth : expenses[i].category_id = c})
                         /\ stats[m].total =
                              SumOver([c \in DOMAIN cats |-> cats[c].amount],
                                      DOMAIN cats)]_vars

\* the statistics show the current month with two categories and a total of 3
C24_Witness ==
    LET stats == monthlyStats["s1"]
    IN /\ "current" \in DOMAIN stats
       /\ stats["current"].total = 3
       /\ DOMAIN stats["current"].categories = Categories

----------------------------------------------------------------------------
(* The expense views of u1 while u1 and u2 send requests on the audit tables *)

ActivityTables == {"activity_logs", "activity_log"}
ActivityLogPatches == {[action |-> "add", user_id |-> "u1"]}

\* the columns of a row of the named audit table
ActivityLogPayload(table, uid) ==
    IF table = "activity_logs"
    THEN [action |-> "delete", entity_id |-> 1, amount |-> 2,
          description |-> "milk", category |-> CategoryName("c1"),
          user_id |-> uid]
    ELSE [expense_id |-> 1, action |-> "delete", user_id |-> uid]

\* the ids of the rows stored in the named audit table
ActivityLogIds(table) ==
    IF table = "activity_logs" THEN DOMAIN activity_logs ELSE DOMAIN activity_log

ActivityLogRequest ==
    \E table \in ActivityTables :
        \/ InsertActivityLogRequest("s2", table, ActivityLogPayload(table, "u1"))
        \/ \E s \in Sessions : \E k \in ActivityLogIds(table) :
                \E patch \in ActivityLogPatches :
                    UpdateActivityLogRequest(s, table, k, patch)
        \/ \E s \in Sessions : \E k \in ActivityLogIds(table) :
                DeleteActivityLogRequest(s, table, k)

NextAppendOnly == SubmitToday \/ SubmitLog \/ FetchAnswer \/ Delete \/ Activities
                    \/ ActivityLogRequest

SpecAppendOnly == InitCategory /\ [][NextAppendOnly]_vars

\* C14: every step keeps each stored row of activity_logs and of
\* activity_log as it is and in its place, so the entries of a user only
\* grow; and a fetchActivities writes to no table.
C14_ActivityLogAppendOnly ==
    /\ [][/\ \A k \in DOMAIN activity_logs :
                k \in DOMAIN activity_logs' /\ activity_logs'[k] = activity_logs[k]
          /\ \A k \in DOMAIN activity_log :
                k \in DOMAIN activity_log' /\ activity_log'[k] = activity_log[k]]_vars
    /\ [][\A s \in ListSessions :
            fetchActivities(s) => UNCHANGED <<expenses, activity_logs,
                                              activity_log, budgets, categories>>]_vars

\* u1 asked to delete a row of its own from activity_log and u2 asked to
\* update a row of activity_logs; both tables have grown and the view of u1
\* has loaded entries
C14_Witness ==
    /\ replies["s1"].table = "activity_log" /\ replies["s1"].op = "delete"
    /\ \E k \in DOMAIN activity_log : activity_log[k].user_id = "u1"
    /\ replies["s2"].table = "activity_logs" /\ replies["s2"].op = "update"
    /\ Len(activity_logs) > 1 /\ Len(activity_log) > 1
    /\ Len(alog["s1"]) > 0

----------------------------------------------------------------------------
(* User u1 with its views and forms, user u2 sending requests on every table *)

IsolationPatches ==
    {[user_id |-> "u2"], [is_deleted |-> TRUE, deleted_at |-> "now"]}
IsolationBudgets ==
    [category_id : {"c2"}, user_id : Users, amount : {1}]
IsolationBudgetPatches == {[amount |-> 1], [user_id |-> "u2"]}

\* an audit row that names u1 as its user and the first expense u1 stores
IsolationLogPayload(table) ==
    IF table = "activity_logs"
    THEN [ActivityLogPayload(table, "u1") EXCEPT !.entity_id = 2]
    ELSE [ActivityLogPayload(table, "u1") EXCEPT !.expense_id = 2]

\* requests of u2: aimed at the rows of u1 and at its own
IsolationRequest ==
    \/ \E i \in DOMAIN expenses : \E patch \in IsolationPatches :
            UpdateExpenseRequest("s2", i, patch)
    \/ \E r \in IsolationBudgets : InsertBudgetRequest("s2", r)
    \/ \E target \in Users : \E patch \in IsolationBudgetPatches :
            UpdateBudgetRequest("s2", "c1", target, patch)
    \/ \E target \in Users : DeleteBudgetRequest("s2", target)
    \/ \E table \in ActivityTables :
            \/ InsertActivityLogRequest("s2", table, IsolationLogPayload(table))
            \/ \E k \in ActivityLogIds(table) : \E patch \in ActivityLogPatches :
                    UpdateActivityLogRequest("s2", table, k, patch)
            \/ \E k \in ActivityLogIds(table) :
                    DeleteActivityLogRequest("s2", table, k)

IsolationSubmit == handleSubmitInsert("s1", "1", "milk", "c1", Today)

NextIsolation ==
    \/ IsolationSubmit \/ SubmitLog \/ Activities
    \/ BudgetSave \/ BudgetFetch
    \/ IsolationRequest

SpecIsolation == InitBudgetRace /\ [][NextIsolation]_vars

\* the rows of the user in a table are the same, at the same ids, in two
\* states of the table
SameRowsOf(uid, old, new) ==
    \A i \in DOMAIN old \cup DOMAIN new :
        (\/ i \in DOMAIN old /\ old[i].user_id = uid
         \/ i \in DOMAIN new /\ new[i].user_id = uid)
        => i \in DOMAIN old /\ i \in DOMAIN new /\ old[i] = new[i]

\* the step leaves the user's rows of expenses, budgets and the two audit
\* tables as they are
OwnRowsKept(uid) ==
    /\ SameRowsOf(uid, expenses, expenses')
    /\ {b \in budgets' : b.user_id = uid} = {b \in budgets : b.user_id = uid}
    /\ SameRowsOf(uid, activity_logs, activity_logs')
    /\ SameRowsOf(uid, activity_log, activity_log')

\* what the queries of the views answer to the user
ReadsOf(uid) ==
    <<[i \in VisibleExpenses(uid) |-> expenses[i]],
      BudgetRowsMap(uid), ActivityRows(uid)>>

\* every step of u1 goes through a form or view of u1 and moves it; a step
\* of u2 is a request sent directly and leaves them as they are
StepOfU1 == <<form, alog, bm, saves>>' # <<form, alog, bm, saves>>
StepOfU2 == ~StepOfU1

\* C15: a step of one user leaves the other user's rows of expenses, budgets
\* and the audit tables, and the answers to the other user's queries, as
\* they were; and what a user's queries answer and a user's views hold is
\* made of that user's rows only.
C15_OwnerIsolation ==
    /\ [][StepOfU2 => /\ OwnRowsKept("u1")
                      /\ ReadsOf("u1")' = ReadsOf("u1")]_vars
    /\ [][StepOfU1 => /\ OwnRowsKept("u2")
                      /\ ReadsOf("u2")' = ReadsOf("u2")]_vars
    /\ [](\A uid \in Users :
            /\ \A i \in VisibleExpenses(uid) : expenses[i].user_id = uid
            /\ BudgetRowsMap(uid) =
                  [c \in {b.category_id : b \in {o \in budgets : o.user_id = uid}} |->
                      (CHOOSE b \in budgets :
                            b.user_id = uid /\ b.category_id = c).amount]
            /\ \A k \in DOMAIN ActivityRows(uid) :
                  ActivityRows(uid)[k].expense =>
                      expenses[ActivityRows(uid)[k].expense_id].user_id = uid)
    /\ [](\A s \in ListSessions : \A k \in DOMAIN alog[s] :
            alog[s][k].expense =>
                expenses[alog[s][k].expense_id].user_id = auth_uid(s))

\* u1 holds an expense, a budget and audit rows and has loaded its budgets
\* and its activity log; u2 has stored an audit row that refers to the
\* expense of u1 and has asked to delete the budgets of u1
C15_Witness ==
    /\ replies["s2"].table = "budgets" /\ replies["s2"].op = "delete"
    /\ replies["s2"].row.user_id = "u1"
    /\ \E i \in DOMAIN expenses : expenses[i].user_id = "u1"
    /\ \E b \in budgets : b.user_id = "u1"
    /\ \E k \in DOMAIN activity_logs : activity_logs[k].user_id = "u1"
    /\ Len(alog["s1"]) > 0
    /\ saves["s1"].stage = "idle" /\ DOMAIN bm["s1"].budgets # {}
    /\ \E k \in DOMAIN activity_log :
          /\ activity_log[k].user_id = "u2"
          /\ expenses[activity_log[k].expense_id].user_id = "u1"

----------------------------------------------------------------------------
(* The expense list over more than one page of expenses *)

PageRow(i) ==
    InsertedExpense("u1",
        [amount |-> 1, description |-> "milk", date |-> i % 3,
         category_id |-> IF i % 6 = 2 THEN "c1" ELSE "c2", user_id |-> NULL])

\* u1 has added MaxPageRows - 1 or MaxPageRows expenses through the form
InitPaging ==
    /\ \E n \in {MaxPageRows - 1, MaxPageRows} :
        /\ expenses = [i \in 1..n |-> PageRow(i)]
        /\ activity_logs =
             [i \in 1..n |->
                [action |-> "add", entity_id |-> i, amount |-> 1,
                 description |-> "milk",
                 category |-> CategoryName(PageRow(i).category_id),
                 user_id |-> "u1"]]
        /\ activity_log =
             [i \in 1..n |-> [expense_id |-> i, action |-> "add", user_id |-> "u1"]]
    /\ InitCategories
    /\ budgets \in InitialBudgets
    /\ InitViews

ChangePage == \E s \in ListSessions : PreviousPage(s) \/ NextPage(s)

NextPaging == ChangeFilter \/ ChangePage \/ FetchAnswer

SpecPaging == InitPaging /\ [][NextPaging]_vars

\* the expenses of uid inside the inclusive date range and category of f
FilteredSet(uid, f) ==
    {i \in DOMAIN expenses :
        /\ expenses[i].user_id = uid
        /\ f.startDate <= expenses[i].date /\ expenses[i].date <= f.endDate
        /\ f.selectedCategory = "all" \/ expenses[i].category_id = f.selectedCategory}

\* C3: the rows a list fetch for page N stores are the rows at the 0-based
\* positions (N-1)*10 .. N*10-1 of the filtered set in date-descending
\* order, and the fetch leaves totalPages at ceil(count/10), count being the
\* size of the filtered set.
C3_PageOfFilteredSet ==
    [][\A s \in ListSessions : \A f \in fetches[s] :
          fetchExpensesList(s, f) =>
              LET F == FilteredSet(auth_uid(s), f)
                  rows == list'[s].expenses
                  first == (f.currentPage - 1) * 10
              IN /\ Len(rows) = Max(0, Min(10, Cardinality(F) - first))
                 /\ \A k \in DOMAIN rows :
                        /\ rows[k].id \in F
                        /\ Cardinality({j \in F : expenses[j].date > rows[k].date})
                              <= first + k - 1
                        /\ Cardinality({j \in F : expenses[j].date >= rows[k].date})
                              > first + k - 1
                 /\ \A k \in DOMAIN rows : \A m \in DOMAIN rows :
                        k # m => rows[k].id # rows[m].id
                 /\ list'[s].totalPages = Ceil(Cardinality(F), 10)]_vars

\* C25: when no fetchExpenses is pending and no error is shown, the page
\* selected lies within 1..totalPages, and totalPages is max(1, ceil(count/10))
\* for the filter selected, count being the size of its filtered set.
C25_PageWithinPages ==
    \A s \in ListSessions :
        (fetches[s] = {} /\ list[s].error = NULL) =>
            LET count == Cardinality(FilteredSet(auth_uid(s), FetchOf(list[s])))
            IN /\ 1 <= list[s].currentPage
               /\ list[s].currentPage <= list[s].totalPages
               /\ list[s].totalPages = Max(1, Ceil(count, 10))

----------------------------------------------------------------------------
(* The list of u1 when the filter or the page changes while a fetch is pending *)

RacingFilter ==
    \E s \in ListSessions :
        \/ \E d \in FilterStartDates : setStartDateWithin(s, d, MaxRacing)
        \/ \E d \in FilterEndDates : setEndDateWithin(s, d, MaxRacing)
        \/ \E c \in FilterCategories : setSelectedCategoryWithin(s, c, MaxRacing)

RacingPage ==
    \E s \in ListSessions :
        \/ PreviousPageWithin(s, MaxRacing)
        \/ NextPageWithin(s, MaxRacing)

NextRacing == RacingFilter \/ RacingPage \/ FetchAnswer

\* u1 has added MaxPageRows expenses and has no budget
InitRacing ==
    /\ InitPaging
    /\ Len(expenses) = MaxPageRows
    /\ \A b \in budgets : b.user_id # "u1"

SpecRacing == InitRacing /\ [][NextRacing]_vars

\* the filter and page a view has selected
Selected(l) ==
    <<l.startDate, l.endDate, l.selectedCategory, l.currentPage>>

\* the filters and pages a fetch of the view may have been started with
Selectable ==
    [stage : {"list"}, startDate : FilterStartDates, endDate : FilterEndDates,
     selectedCategory : FilterCategories, currentPage : 1..2]

\* nothing is pending, and the rows and the page count shown are those of a
\* filter or page other than the selected one, and differ from the selected
\* one's
StaleList(s) ==
    /\ fetches[s] = {} /\ bfetches[s] = 0
    /\ \E f \in Selectable :
          /\ f # FetchOf(list[s])
          /\ list[s].expenses = ListData(auth_uid(s), f)
          /\ list[s].totalPages = Ceil(ListCount(auth_uid(s), f), ITEMS_PER_PAGE)
    /\ list[s].expenses # ListData(auth_uid(s), FetchOf(list[s]))
    /\ list[s].totalPages #
            Ceil(ListCount(auth_uid(s), FetchOf(list[s])), ITEMS_PER_PAGE)

----------------------------------------------------------------------------
(* The four views of u1 side by side: budget save, category save, list fetch
   and delete *)

BusyBudget == BudgetSave \/ BudgetFetch

BusyCategory ==
    \/ CategoryFetch
    \/ AddCategory("s1")
    \/ setNewCategoryName("s1", "Toys ")
    \/ setNewCategoryIcon("s1", "paw")
    \/ handleAddCategory("s1")
    \/ handleAddCategoryInserted("s1")
    \/ handleAddCategoryRejected("s1")

BusyList == FetchAnswer \/ Delete

NextBusy == BusyBudget \/ BusyCategory \/ BusyList

\* u1 has stored one expense through the form and one budget
InitBusy ==
    /\ expenses = <<OtherUsersExpense,
                    InsertedExpense("u1",
                        [amount |-> 1, description |-> "milk", date |-> Today,
                         category_id |-> "c1", user_id |-> NULL])>>
    /\ activity_logs =
         [i \in 1..2 |->
            [action |-> "add", entity_id |-> i, amount |-> expenses[i].amount,
             description |-> "milk", category |-> CategoryName("c1"),
             user_id |-> expenses[i].user_id]]
    /\ activity_log =
         log_expense_creation(log_expense_creation(<<>>, 1, "u2"), 2, "u1")
    /\ InitCategories
    /\ budgets = {[category_id |-> "c1", user_id |-> "u2", amount |-> 1],
                  [category_id |-> "c1", user_id |-> "u1", amount |-> 2]}
    /\ InitViews

SpecBusy == InitBusy /\ [][NextBusy]_vars

\* C23: a view with no request of its own in flight has its busy flag at the
\* idle value (saving and loading false, deleting null), so every answer that
\* ends an operation clears the flag; and the step of a rejection starts no
\* request: the save, fetch or delete is over and nothing else is pending for
\* it.
C23_BusyClearedNoRetry ==
    /\ [](\A s \in ListSessions :
            /\ saves[s].stage = "idle" => ~bm[s].saving /\ ~bm[s].loading
            /\ (cm[s].pc = "idle") => ~cm[s].saving
            /\ fetches[s] = {} => ~list[s].loading
            /\ dels[s] = {} => list[s].deleting = NoId)
    /\ [][\A s \in ListSessions :
            /\ (handleSaveBudgetsRejected(s) \/ BudgetManager_fetchBudgetsRejected(s))
                  => saves'[s].stage = "idle" /\ budgets' = budgets
            /\ handleAddCategoryRejected(s)
                  => /\ cm'[s].pc = "idle" /\ cm'[s].fetching = cm[s].fetching
                     /\ categories' = categories
            /\ \A f \in fetches[s] :
                  fetchExpensesRejected(s, f)
                      => /\ fetches'[s] = fetches[s] \ {f}
                         /\ bfetches'[s] = bfetches[s]
            /\ \A d \in dels[s] :
                  handleDeleteRejected(s, d)
                      => /\ dels'[s] = dels[s] \ {d}
                         /\ fetches'[s] = fetches[s]
                         /\ activity_logs' = activity_logs]_vars

\* all four operations have been answered with a rejection and every view is
\* idle again
C23_Witness ==
    /\ bm["s1"].error = "Failed to save budgets. Please try again."
    /\ cm["s1"].error = "Failed to add category. Please try again."
    /\ list["s1"].error = "Failed to delete expense"
    /\ saves["s1"].stage = "idle" /\ cm["s1"].pc = "idle"
    /\ fetches["s1"] = {} /\ dels["s1"] = {}
    /\ ~bm["s1"].saving /\ ~cm["s1"].saving /\ ~list["s1"].loading
    /\ list["s1"].deleting = NoId

----------------------------------------------------------------------------
(* The list of u1 with a second delete clicked while the first is in flight *)

DeletingDelete ==
    \E s \in ListSessions :
        \/ \E k \in DOMAIN list[s].expenses : handleDeleteWithin(s, k, MaxRacing)
        \/ \E d \in dels[s] : handleDeleteUpdate(s, d)
        \/ \E d \in dels[s] : handleDeleteLog(s, d)
        \/ \E d \in dels[s] : handleDeleteRejected(s, d)

NextDeleting == FetchAnswer \/ DeletingDelete

\* u1 has stored two expenses through the form
InitDeleting ==
    /\ expenses = <<OtherUsersExpense,
                    InsertedExpense("u1",
                        [amount |-> 1, description |-> "milk", date |-> Today,
                         category_id |-> "c1", user_id |-> NULL]),
                    InsertedExpense("u1",
                        [amount |-> 2, description |-> "milk", date |-> Today,
                         category_id |-> "c1", user_id |-> NULL])>>
    /\ activity_logs =
         [i \in 1..3 |->
            [action |-> "add", entity_id |-> i, amount |-> expenses[i].amount,
             description |-> "milk", category |-> CategoryName("c1"),
             user_id |-> expenses[i].user_id]]
    /\ activity_log =
         [i \in 1..3 |->
            [expense_id |-> i, action |-> "add", user_id |-> expenses[i].user_id]]
    /\ InitCategories
    /\ budgets = {}
    /\ InitViews

SpecDeleting == InitDeleting /\ [][NextDeleting]_vars

\* C27: handleDelete is never started for an expense while an earlier call
\* for it is in flight or after one has succeeded, and activity_logs never
\* holds more than one 'delete' row for an expense (each such row comes with
\* one subtraction of the amount from categoryTotals).
C27_DeletedAtMostOnce ==
    /\ [][\A s \in ListSessions : \A k \in DOMAIN list[s].expenses :
            handleDeleteWithin(s, k, MaxRacing) =>
                LET id == list[s].expenses[k].id
                IN /\ \A d \in dels[s] : d.expense.id # id
                   /\ ClientLogRows(activity_logs, "delete", id) = {}]_vars
    /\ [](\A i \in DOMAIN expenses :
            Cardinality(ClientLogRows(activity_logs, "delete", i)) <= 1)

----------------------------------------------------------------------------
(* The budget view of u1 saved without an edit, while u2 writes budgets *)

UneditedBudgets == [category_id : Categories, user_id : {"u2"}, amount : {1, 2}]

UneditedRequest ==
    \/ \E r \in UneditedBudgets : InsertBudgetRequest("s2", r)
    \/ DeleteBudgetRequest("s2", "u2")

NextUnedited == BudgetSave \/ BudgetFetch \/ UneditedRequest

SpecUnedited == InitBudget /\ [][NextUnedited]_vars

\* the budget rows stored for uid
OwnBudgets(uid) == {b \in budgets : b.user_id = uid}

\* C28: a save of the unedited view stores what was stored: the rows its
\* delete removes are the rows it goes on to insert, and when its writes are
\* done the user's rows are those rows again.
C28_UneditedSaveKeepsBudgets ==
    /\ [][handleSaveBudgetsDeleted("s1") =>
            OwnBudgets("u1") = BudgetsToInsert(saves["s1"].entries, "u1")]_vars
    /\ [][SaveWritten("s1") =>
            OwnBudgets("u1")' = BudgetsToInsert(saves["s1"].entries, "u1")]_vars

----------------------------------------------------------------------------
(* A save of the budget view of u1 whose insert is rejected *)

\* the insert of the save of s is rejected after its delete succeeded
InsertRejected(s) ==
    /\ saves[s].stage = "insert"
    /\ handleSaveBudgetsRejected(s)

----------------------------------------------------------------------------
(* The budget chart of u1 next to the form and the list *)

ChartInputs ==
    {[amount |-> "1", description |-> "milk", categoryId |-> "c1", date |-> Today],
     [amount |-> "2", description |-> "milk", categoryId |-> "c1", date |-> Today],
     [amount |-> "1", description |-> "milk", categoryId |-> "c2", date |-> Today],
     [amount |-> "1", description |-> "milk", categoryId |-> "c1", date |-> MonthEnd]}

ChartSubmit ==
    \E in \in ChartInputs :
        handleSubmitInsert("s1", in.amount, in.description, in.categoryId, in.date)

Chart == \E s \in ListSessions : fetchBudgetsAndExpenses(s)

NextChart == ChartSubmit \/ SubmitLog \/ FetchAnswer \/ Delete \/ Chart

\* no expense stored yet; u1 saved a budget for c1 earlier, u2 too
InitChart ==
    /\ expenses = <<>>
    /\ activity_logs = <<>>
    /\ activity_log = <<>>
    /\ InitCategories
    /\ budgets \in { {[category_id |-> "c1", user_id |-> "u2", amount |-> 1],
                      [category_id |-> "c1", user_id |-> "u1", amount |-> a]} :
                        a \in {1, 2} }
    /\ InitViews

SpecChart == InitChart /\ [][NextChart]_vars

\* what the chart shows as spent for category c
ChartSpent(data, c) == IF c \in DOMAIN data THEN data[c].spent ELSE 0

\* what ExpenseList would hold after fetchExpenses and fetchBudgets over the
\* rows stored now
ListOverStored(uid) ==
    [budgets |-> BudgetMap(uid), categoryTotals |-> MonthTotals(uid)]

\* C30: over the same stored expenses and budgets, the spent amount the
\* chart computes for a category is the total ExpenseList computes for it,
\* and the chart draws a category at or over 100% of its budget exactly when
\* ExpenseList flags it as over budget.
C30_ChartAgreesWithList ==
    [][\A s \in ListSessions :
          fetchBudgetsAndExpenses(s) =>
              LET data == chartMonthlyData'[s]
                  l == ListOverStored(auth_uid(s))
              IN \A c \in Categories :
                    /\ ChartSpent(data, c) = l.categoryTotals[c]
                    /\ (c \in DOMAIN data /\ ChartOverBudget(data[c]))
                          <=> isOverBudget(l, c)]_vars

====
